---------------------------- MODULE Spec2Model ----------------------------
(***************************************************************************)
(* A model of the two programs of the repository:                          *)
(*   - scripts/archive_unused.py, the unused-file archiver                 *)
(*     (UnusedFileArchiver.run: analysis, fixed-point propagation,         *)
(*     archiving, audit log);                                              *)
(*   - mcp_server_classification.py, the classification / retrieval        *)
(*     server (the process-wide caches and the operations that use them).  *)
(*                                                                         *)
(* Text is modelled as a sequence of one-character strings, so that the    *)
(* string operations of the code (lower, strip, lstrip, startswith, split, *)
(* suffix, stem, comparison) are computed and not assumed.  A path is the  *)
(* sequence of its parts relative to the project root.                     *)
(***************************************************************************)
EXTENDS Naturals, Integers, Sequences, FiniteSets, TLC

(***************************************************************************)
(* Text                                                                    *)
(***************************************************************************)

\* The characters of the model, in code-point order: the printable
\* characters of ASCII (but the grave accent, which no string of TLA+ can
\* hold) and the white space of str that a string of TLA+ can hold (tab,
\* line feed, vertical tab, form feed, carriage return, the separators
\* 1C-1F, space, 85, A0, 1680; not the spaces 2000-3000).
Alphabet ==
  <<"\t", "\n", "", "\f", "\r", "", "", "", "", " ", "!", "\"", "#",
    "$", "%", "&", "'", "(", ")", "*", "+", ",", "-", ".", "/", "0", "1",
    "2", "3", "4", "5", "6", "7", "8", "9", ":", ";", "<", "=", ">", "?",
    "@", "A", "B", "C", "D", "E", "F", "G", "H", "I", "J", "K", "L", "M",
    "N", "O", "P", "Q", "R", "S", "T", "U", "V", "W", "X", "Y", "Z", "[",
    "\\", "]", "^", "_", "a", "b", "c", "d", "e", "f", "g", "h", "i", "j",
    "k", "l", "m", "n", "o", "p", "q", "r", "s", "t", "u", "v", "w", "x",
    "y", "z", "{", "|", "}", "~", "", " ", " ">>

\* The characters str.strip() and str.split() take for white space
\* (str.isspace), as far as they are characters of the model.
Whitespace ==
  {"\t", "\n", "", "\f", "\r", "", "", "", "", " ", "", " ", " "}

UpperCase == <<"A","B","C","D","E","F","G","H","I","J","K","L","M","N","O","P","Q","R","S","T","U","V","W","X","Y","Z">>

LowerCase == <<"a","b","c","d","e","f","g","h","i","j","k","l","m","n","o","p","q","r","s","t","u","v","w","x","y","z">>

\* The position of a character in a sequence of characters (0: absent).
IndexOf(c, chars) ==
  IF \E i \in 1..Len(chars) : chars[i] = c
  THEN CHOOSE i \in 1..Len(chars) :
         chars[i] = c /\ \A j \in 1..(i - 1) : chars[j] # c
  ELSE 0

\* The rank of a character of the model among them: ranks compare as the
\* code points (ord) do.
Ord(c) == CHOOSE i \in 1..Len(Alphabet) : Alphabet[i] = c

\* str.lower
LowerChar(c) ==
  IF IndexOf(c, UpperCase) > 0 THEN LowerCase[IndexOf(c, UpperCase)] ELSE c

Lower(s) == [i \in 1..Len(s) |-> LowerChar(s[i])]

\* str.startswith
StartsWith(s, p) == Len(p) <= Len(s) /\ SubSeq(s, 1, Len(p)) = p

\* str.rfind('.') and friends: the last position of c in s (0: absent).
RFind(s, c) ==
  IF \E i \in 1..Len(s) : s[i] = c
  THEN CHOOSE i \in 1..Len(s) :
         s[i] = c /\ \A j \in (i + 1)..Len(s) : s[j] # c
  ELSE 0

\* str.lstrip(chars), str.rstrip(chars), str.strip(chars)
RECURSIVE LStrip(_, _)
LStrip(s, chars) ==
  IF s # <<>> /\ Head(s) \in chars THEN LStrip(Tail(s), chars) ELSE s

RECURSIVE RStrip(_, _)
RStrip(s, chars) ==
  IF s # <<>> /\ s[Len(s)] \in chars
  THEN RStrip(SubSeq(s, 1, Len(s) - 1), chars)
  ELSE s

Strip(s, chars) == RStrip(LStrip(s, chars), chars)

\* The first position in s of a character of chars (Len(s) + 1: none).
FirstOf(s, chars) ==
  IF \E i \in 1..Len(s) : s[i] \in chars
  THEN CHOOSE i \in 1..Len(s) :
         s[i] \in chars /\ \A j \in 1..(i - 1) : s[j] \notin chars
  ELSE Len(s) + 1

\* str.split(sep) for a one-character separator.
RECURSIVE Split(_, _)
Split(s, sep) ==
  LET i == FirstOf(s, {sep})
  IN  IF i > Len(s) THEN <<s>>
      ELSE <<SubSeq(s, 1, i - 1)>> \o Split(SubSeq(s, i + 1, Len(s)), sep)

\* a < b for str (code-point order).
RECURSIVE StrLess(_, _)
StrLess(a, b) ==
  IF b = <<>> THEN FALSE
  ELSE IF a = <<>> THEN TRUE
  ELSE IF Ord(Head(a)) # Ord(Head(b)) THEN Ord(Head(a)) < Ord(Head(b))
  ELSE StrLess(Tail(a), Tail(b))

\* The set of the elements of a sequence.
Range(s) == {s[i] : i \in 1..Len(s)}

\* The sequences that list a finite set once each (an iteration order).
RECURSIVE Orders(_)
Orders(S) ==
  IF S = {} THEN {<<>>}
  ELSE UNION {{<<x>> \o o : o \in Orders(S \ {x})} : x \in S}

(***************************************************************************)
(* pathlib                                                                 *)
(***************************************************************************)

\* Path(text): the parts of a path written as text; pathlib drops empty
\* parts and "." parts.  (Whether the text is absolute is IsAbsolute.)
RECURSIVE DropDots(_)
DropDots(parts) ==
  IF parts = <<>> THEN <<>>
  ELSE IF Head(parts) = <<>> \/ Head(parts) = <<".">> THEN DropDots(Tail(parts))
  ELSE <<Head(parts)>> \o DropDots(Tail(parts))

PathParts(text) == DropDots(Split(text, "/"))

IsAbsolute(text) == text # <<>> /\ Head(text) = "/"

\* self.project_root, resolved: the absolute parts of the root of the
\* model's projects.
project_root == << <<"w","o","r","k">>, <<"p","r","o","j">> >>

\* Path.resolve() of an absolute path without symbolic links: ".." steps
\* to the parent, and stays at "/" when there is none.
RECURSIVE Normalize(_, _)
Normalize(done, parts) ==
  IF parts = <<>> THEN done
  ELSE IF Head(parts) = <<".",".">>
       THEN Normalize(SubSeq(done, 1, Len(done) - 1), Tail(parts))
       ELSE Normalize(Append(done, Head(parts)), Tail(parts))

\* How many leading parts two paths share.
RECURSIVE CommonLen(_, _)
CommonLen(a, b) ==
  IF a = <<>> \/ b = <<>> \/ Head(a) # Head(b) THEN 0
  ELSE 1 + CommonLen(Tail(a), Tail(b))

\* An absolute path as a path of the model: its parts under the project
\* root, or, for a path that is not under the root, the way to it from
\* the root, which starts with "..": no file of the model.
RelativeToRoot(full) ==
  LET n == CommonLen(project_root, full)
  IN  [i \in 1..(Len(project_root) - n) |-> <<".",".">>]
        \o SubSeq(full, n + 1, Len(full))

\* (dir / text).resolve(), dir given by its parts under the root: an
\* absolute text replaces dir.
JoinResolve(dir, text) ==
  RelativeToRoot(
    Normalize(<<>>, IF IsAbsolute(text) THEN PathParts(text)
                    ELSE project_root \o dir \o PathParts(text)))

\* Path.name, Path.parent, Path.suffix, Path.stem
Name(path) == IF path = <<>> THEN <<>> ELSE path[Len(path)]

Parent(path) == IF path = <<>> THEN <<>> ELSE SubSeq(path, 1, Len(path) - 1)

HasSuffix(name) == 0 < RFind(name, ".") - 1 /\ RFind(name, ".") < Len(name)

Suffix(name) ==
  IF HasSuffix(name) THEN SubSeq(name, RFind(name, "."), Len(name)) ELSE <<>>

Stem(name) ==
  IF HasSuffix(name) THEN SubSeq(name, 1, RFind(name, ".") - 1) ELSE name

\* a < b for paths: the parts compared in order.
RECURSIVE PathLess(_, _)
PathLess(a, b) ==
  IF b = <<>> THEN FALSE
  ELSE IF a = <<>> THEN TRUE
  ELSE IF Head(a) # Head(b) THEN StrLess(Head(a), Head(b))
  ELSE PathLess(Tail(a), Tail(b))

\* sorted(paths)
RECURSIVE Sorted(_)
Sorted(S) ==
  IF S = {} THEN <<>>
  ELSE LET m == CHOOSE x \in S : \A y \in S \ {x} : PathLess(x, y)
       IN  <<m>> \o Sorted(S \ {m})

(***************************************************************************)
(* UnusedFileArchiver: class constants                                     *)
(***************************************************************************)

ALWAYS_EXCLUDE ==
  { <<".","g","i","t">>, <<".","d","e","v","c","o","n","t","a","i","n","e","r">>, <<"a","r","c","h","i","v","e">>, <<"_","_","p","y","c","a","c","h","e","_","_">>, <<".","v","e","n","v">>,
    <<"v","e","n","v">>, <<"p","y","_","e","n","v">>, <<"n","o","d","e","_","m","o","d","u","l","e","s">>, <<".","v","s","c","o","d","e">>, <<".","i","d","e","a">>,
    <<".","g","i","t","h","u","b">> }

SETUP_PATTERNS ==
  { <<"d","e","v","c","o","n","t","a","i","n","e","r",".","j","s","o","n">>, <<"r","e","q","u","i","r","e","m","e","n","t","s",".","t","x","t">>, <<"r","e","q","u","i","r","e","m","e","n","t","s">>,
    <<"p","a","c","k","a","g","e",".","j","s","o","n">>, <<"p","a","c","k","a","g","e","-","l","o","c","k",".","j","s","o","n">>, <<"p","y","p","r","o","j","e","c","t",".","t","o","m","l">>,
    <<"s","e","t","u","p",".","p","y">>, <<"s","e","t","u","p",".","c","f","g">>, <<"M","a","k","e","f","i","l","e">>, <<"D","o","c","k","e","r","f","i","l","e">>,
    <<"d","o","c","k","e","r","-","c","o","m","p","o","s","e",".","y","m","l">>, <<"d","o","c","k","e","r","-","c","o","m","p","o","s","e",".","y","a","m","l">>, <<".","g","i","t","i","g","n","o","r","e">>,
    <<".","g","i","t","a","t","t","r","i","b","u","t","e","s">>, <<".","e","n","v">>, <<".","e","n","v",".","e","x","a","m","p","l","e">>, <<"L","I","C","E","N","S","E">>,
    <<"C","H","A","N","G","E","L","O","G",".","m","d">>, <<"C","O","N","T","R","I","B","U","T","I","N","G",".","m","d">> }

SETUP_EXTENSIONS == { <<".","s","h">>, <<".","t","o","m","l">>, <<".","c","f","g">>, <<".","i","n","i">>, <<".","c","o","n","f">> }

PRIMARY_REF_FILES ==
  << <<".","d","e","v","c","o","n","t","a","i","n","e","r","/","d","e","v","c","o","n","t","a","i","n","e","r",".","j","s","o","n">>, <<"l","a","b","s",".","m","d">>, <<"R","E","A","D","M","E",".","m","d">> >>

\* The dot-names is_excluded_path lets through.
DotFileExceptions ==
  { <<".","g","i","t","i","g","n","o","r","e">>, <<".","g","i","t","a","t","t","r","i","b","u","t","e","s">>, <<".","e","n","v">>, <<".","e","n","v",".","e","x","a","m","p","l","e">> }

\* The first path parts that make a file a setup file.
SetupDirs == { <<"s","c","r","i","p","t","s">>, <<"r","e","q","u","i","r","e","m","e","n","t","s">>, <<".","d","e","v","c","o","n","t","a","i","n","e","r">>, <<"t","o","o","l","s">> }

\* The suffixes of the files the propagation loop scans.
ScannedSuffixes ==
  { <<".","p","y">>, <<".","j","s">>, <<".","t","s">>, <<".","m","d">>, <<".","j","s","o","n">>, <<".","y","a","m","l">>, <<".","y","m","l">>,
    <<".","h","t","m","l">>, <<".","t","x","t">> }

\* The extensions find_file_by_name appends to a base name.
ExtensionsToTry ==
  { <<>>, <<".","p","y">>, <<".","j","s">>, <<".","t","s">>, <<".","m","d">>, <<".","t","x","t">>, <<".","j","s","o","n">> }

\* The propagation loop's cap.
max_iterations == 50

\* self.archive_dir, under the project root.
archive_dir == << <<"a","r","c","h","i","v","e">> >>

(***************************************************************************)
(* State                                                                   *)
(***************************************************************************)

VARIABLES
  fs,              \* the regular files under the project root: path -> captures
  dirs,            \* the directories under the project root
  dry_run,         \* self.dry_run
  verbose,         \* self.verbose
  all_files,       \* self.all_files
  used_files,      \* self.used_files
  log_lines,       \* self.log_lines
  pc,              \* where run() stands
  ref_idx,         \* run_analysis: the index into PRIMARY_REF_FILES
  iteration,       \* run_analysis: iteration
  files_to_check,  \* run_analysis: the files of the pass not yet scanned
  new_refs_found,  \* run_analysis: new_refs_found
  source_file,     \* the file analyze_references_from_file was last given
  unused_files,    \* run(): unused_files
  queue,           \* archive_files: the rest of sorted(unused_files)
  archived_count,  \* archive_files: archived_count
  failed_count,    \* archive_files: failed_count
  calls            \* the moves asked of git and of shutil, in order

avars ==
  <<fs, dirs, dry_run, verbose, all_files, used_files, log_lines, pc, ref_idx,
    iteration, files_to_check, new_refs_found, source_file, unused_files,
    queue, archived_count, failed_count, calls>>

\* self.log(message, level): one entry of the audit log.
LogEntry(level, text, about) ==
  [level |-> level, text |-> text, about |-> about]

log(lines, level, text, about) == Append(lines, LogEntry(level, text, about))

\* self.debug(message): an entry at DEBUG level in verbose mode only.
debug(lines, text, about) ==
  IF verbose THEN log(lines, "DEBUG", text, about) ELSE lines

(***************************************************************************)
(* UnusedFileArchiver: the functions of the analysis                       *)
(***************************************************************************)

is_excluded_path(path) ==
  \E i \in 1..Len(path) :
       \/ path[i] \in ALWAYS_EXCLUDE
       \/ /\ StartsWith(path[i], <<".">>)
          /\ path[i] \notin DotFileExceptions

is_setup_file(path) ==
  \/ Lower(Name(path)) \in {Lower(p) : p \in SETUP_PATTERNS}
  \/ path # <<>> /\ Lower(path[1]) \in SetupDirs
  \/ Lower(Suffix(Name(path))) \in SETUP_EXTENSIONS

\* os.walk with the excluded directories pruned: a file is met when no
\* directory above it is pruned.
Walked(path) ==
  \A i \in 1..(Len(path) - 1) :
       path[i] \notin ALWAYS_EXCLUDE /\ ~StartsWith(path[i], <<".">>)

\* A walk that prunes no directory and filters no file.
get_all_project_files_unfiltered(files) == files

\* files: the paths of the regular files under the project root.
get_all_project_files(files) ==
  {p \in files : Walked(p) /\ ~is_excluded_path(p)}

\* extract_references, after the patterns have matched: the clean-up of one
\* captured string.  The result is the set of the references it adds
\* (none when it is skipped).
SkippedPrefixes == { <<"h","t","t","p",":","/","/">>, <<"h","t","t","p","s",":","/","/">>, <<"#">>, <<"m","a","i","l","t","o",":">> }

CleanMatch(match) ==
  LET stripped == Strip(Strip(match, Whitespace), {"\"", "'"})
      cut      == SubSeq(stripped, 1, FirstOf(stripped, {"?", "#"}) - 1)
  IN  IF \E p \in SkippedPrefixes : StartsWith(stripped, p) THEN {}
      ELSE IF Len(cut) < 2
              \/ \E i \in 1..Len(cut) :
                    cut[i] \in {"<", ">", "{", "}", "[", "]"}
           THEN {}
      ELSE {cut}

\* extract_references of a readable file, given the strings its text makes
\* the patterns capture.
extract_references(captures) == UNION {CleanMatch(m) : m \in captures}

\* resolve_reference: the first candidate that is a regular file, or None.
None == <<>>

Candidates(reference, source) ==
  << JoinResolve(Parent(source), reference),
     JoinResolve(<<>>, reference),
     JoinResolve(<<>>, LStrip(reference, {".", "/"})) >>

resolve_reference(reference, source, files) ==
  LET c == Candidates(reference, source)
  IN  IF \E i \in 1..Len(c) : c[i] \in files
      THEN c[CHOOSE i \in 1..Len(c) :
                 c[i] \in files /\ \A j \in 1..(i - 1) : c[j] \notin files]
      ELSE None

\* find_file_by_name: the files of all_files whose name matches.
NameMatches(file_path, base_name) ==
  \/ Name(file_path) = base_name
  \/ \E ext \in ExtensionsToTry : Name(file_path) = base_name \o ext
  \/ Stem(Name(file_path)) = Stem(base_name)

find_file_by_name(filename, all) ==
  {f \in all : NameMatches(f, Name(PathParts(filename)))}

\* The reason mark_file_used is given by analyze_references_from_file:
\* f"{reason_prefix}: {source_file.name}", with " (by name)" after the
\* prefix for a file found by its name.
Reason(reason_prefix, by_name, source) ==
  <<reason_prefix, IF by_name THEN "(by name)" ELSE "", Name(source)>>

\* A mark_file_used that assigns the set instead of adding to it.
mark_file_used_assigning(file_path, reason, st) ==
  IF file_path \notin st.used
  THEN [st EXCEPT !.used = {file_path},
                  !.lines = debug(@, "Marked as used", <<file_path, reason>>)]
  ELSE st

\* mark_file_used, on the part st of the state that an analysis works
\* on: st.used is self.used_files and st.lines is self.log_lines.
mark_file_used(file_path, reason, st) ==
  IF file_path \notin st.used
  THEN [st EXCEPT !.used = @ \cup {file_path},
                  !.lines = debug(@, "Marked as used", <<file_path, reason>>)]
  ELSE st

\* mark_file_used on each file of a list.
RECURSIVE MarkEach(_, _, _)
MarkEach(paths, reason, st) ==
  IF paths = <<>> THEN st
  ELSE MarkEach(Tail(paths), reason, mark_file_used(Head(paths), reason, st))

\* The files found by name and marked, and newly_found, for the matches in
\* the order of the list (lines 260-263).
RECURSIVE MarkMatches(_, _, _)
MarkMatches(matches, reason, st) ==
  IF matches = <<>> THEN st
  ELSE LET marked == mark_file_used(Head(matches), reason, st)
       IN  MarkMatches(Tail(matches), reason,
                       [marked EXCEPT !.newly = @ \cup {Head(matches)}])

\* An analyze_references_from_file that leaves the exactly resolved files
\* out of newly_found.
AnalyzeOne_not_reporting(ref, source, reason_prefix, st, all, files) ==
  LET resolved == resolve_reference(ref, source, files)
  IN  IF resolved # None /\ resolved \in all /\ resolved \notin st.used
      THEN {mark_file_used(resolved,
                           Reason(reason_prefix, FALSE, source), st)}
      ELSE LET hits == {m \in find_file_by_name(ref, all) :
                           m \in all /\ m \notin st.used}
           IN  {MarkMatches(o, Reason(reason_prefix, TRUE, source), st)
                  : o \in Orders(hits)}

\* analyze_references_from_file, one reference: st is [used, newly,
\* lines].  Exact resolution first; the else branch is the fuzzy matching.
\* The matches come in the iteration order of the set all_files, so the
\* result is the set of the states that the orders give (they differ in
\* the order of the DEBUG entries only).
AnalyzeOne(ref, source, reason_prefix, st, all, files) ==
  LET resolved == resolve_reference(ref, source, files)
  IN  IF resolved # None /\ resolved \in all /\ resolved \notin st.used
      THEN {[mark_file_used(resolved,
                            Reason(reason_prefix, FALSE, source), st)
               EXCEPT !.newly = @ \cup {resolved}]}
      ELSE LET hits == {m \in find_file_by_name(ref, all) :
                           m \in all /\ m \notin st.used}
           IN  {MarkMatches(o, Reason(reason_prefix, TRUE, source), st)
                  : o \in Orders(hits)}

\* analyze_references_from_file over the references in the order refs:
\* the states it can end in.
RECURSIVE AnalyzeRefs(_, _, _, _, _, _)
AnalyzeRefs(refs, source, reason_prefix, st, all, files) ==
  IF refs = <<>> THEN {st}
  ELSE UNION {AnalyzeRefs(Tail(refs), source, reason_prefix, next,
                          all, files)
                : next \in AnalyzeOne(Head(refs), source, reason_prefix,
                                      st, all, files)}

\* extract_references of a file that may not be readable: the references
\* in the orders the set can give them, and the log (a file that cannot
\* be read gives none, and a DEBUG entry).
Readable(file_path, tree) == file_path \in DOMAIN tree

ReferenceOrders(file_path, tree) ==
  Orders(IF Readable(file_path, tree)
         THEN extract_references(tree[file_path]) ELSE {})

AfterRead(file_path, tree, lines) ==
  IF Readable(file_path, tree) THEN lines
  ELSE debug(lines, "Could not read", file_path)

\* analyze_references_from_file(source, prefix): the states
\* [used, newly, lines] it can end in, from used_files and log_lines.
analyze_references_from_file(source, prefix, used, lines, all, tree) ==
  UNION {AnalyzeRefs(refs, source, prefix,
                     [used  |-> used, newly |-> {},
                      lines |-> AfterRead(source, tree, lines)],
                     all, DOMAIN tree)
           : refs \in ReferenceOrders(source, tree)}

\* Whether the propagation loop scans a file.
IsScanned(file_path) == Suffix(Name(file_path)) \in ScannedSuffixes

\* An unused set that forgets to take the used files out.
UnusedOf_all(all, used) == all

\* unused_files = self.all_files - self.used_files
UnusedOf(all, used) == all \ used

(***************************************************************************)
(* The projects of the model                                               *)
(***************************************************************************)

\* The length of the reference chain of the deep project (labs.md ->
\* c1.md -> c2.md -> ... ), long enough for the cap to end the loop
\* before the chain does.
ChainLen == 52

\* How many files the last pass of the deep project has left to scan in
\* the state the model takes it up in.
LateLeft == 3

README     == << <<"R","E","A","D","M","E",".","m","d">> >>
build_sh   == << <<"s","c","r","i","p","t","s">>, <<"b","u","i","l","d",".","s","h">> >>
helper_py  == << <<"l","i","b">>, <<"h","e","l","p","e","r",".","p","y">> >>
old_notes  == << <<"o","l","d","_","n","o","t","e","s",".","t","x","t">> >>
build_py   == << <<"o","t","h","e","r">>, <<"b","u","i","l","d",".","p","y">> >>
labs_md    == << <<"l","a","b","s",".","m","d">> >>
\* A regular file an earlier run archived from <root>/lib.
archived_lib == << <<"a","r","c","h","i","v","e">>, <<"l","i","b">> >>
\* A file an earlier run archived from the directory <root>/old_notes.txt.
archived_page == << <<"a","r","c","h","i","v","e">>, <<"o","l","d","_","n","o","t","e","s",".","t","x","t">>, <<"p","a","g","e",".","m","d">> >>
\* The first primary reference file.
devcontainer_json == << <<".","d","e","v","c","o","n","t","a","i","n","e","r">>, <<"d","e","v","c","o","n","t","a","i","n","e","r",".","j","s","o","n">> >>

\* A file of the git repository at the root, when the root is one.
git_head == << <<".","g","i","t">>, <<"H","E","A","D">> >>

\* What may lie in the excluded directories when the run starts.
Leftovers ==
  {{}, {archived_lib}, {archived_page}, {devcontainer_json}, {git_head}}

SmallFiles == {README, build_sh, helper_py, old_notes, build_py}

\* What the text of a file makes the patterns of extract_references
\* capture: the choices of the model, per file.
CaptureChoices(path) ==
  IF path = README
  THEN { {},
         { <<"s","c","r","i","p","t","s","/","b","u","i","l","d",".","s","h">> },
         { <<"l","i","b","/","h","e","l","p","e","r",".","p","y","?","r","a","w","=","t","r","u","e">>, <<"h","t","t","p","s",":","/","/","e","x","a","m","p","l","e",".","c","o","m","/","a",".","m","d">> },
         { <<"/","/","w","o","r","k","/","p","r","o","j","/","s","c","r","i","p","t","s","/","b","u","i","l","d",".","s","h">>, <<".",".","/","p","r","o","j","/","l","i","b","/","h","e","l","p","e","r",".","p","y">> },
         { <<" ","'","h","e","l","p","e","r","'"," ">> } }
  ELSE IF path = build_sh THEN { { <<"l","i","b","/","h","e","l","p","e","r",".","p","y">> } }
  ELSE IF path = helper_py THEN { {}, { <<".","/","o","l","d","_","n","o","t","e","s",".","t","x","t">> } }
  ELSE { {} }

\* The texts of a set of files: one choice of captures for each.
TextsOf(present) ==
  {text \in [present -> UNION {CaptureChoices(p) : p \in present}] :
     \A p \in present : text[p] \in CaptureChoices(p)}

\* The file systems of the small projects: any of the small files, each
\* with one of its texts, and perhaps a file in an excluded directory.
SmallProjects ==
  UNION { UNION { { [p \in present \cup extra |->
                        IF p \in present THEN text[p] ELSE {}]
                    : text \in TextsOf(present) }
                  : extra \in Leftovers }
          : present \in SUBSET SmallFiles }

\* The decimal digits of n.
RECURSIVE Digits(_)
Digits(n) ==
  IF n < 10 THEN <<Alphabet[Ord("0") + n]>>
  ELSE Digits(n \div 10) \o <<Alphabet[Ord("0") + (n % 10)]>>

ChainName(i) == <<"c">> \o Digits(i) \o <<".","m","d">>

\* The deep project: labs.md refers to c1.md, c<i>.md to c<i+1>.md.
ChainProject ==
  [p \in {labs_md} \cup {<<ChainName(i)>> : i \in 1..ChainLen} |->
     IF p = labs_md THEN {ChainName(1)}
     ELSE LET i == CHOOSE k \in 1..ChainLen : p = <<ChainName(k)>>
          IN  IF i < ChainLen THEN {ChainName(i + 1)} ELSE {}]

\* A project where README.md is a directory: it holds x.py, beside labs.md
\* and lib/helper.py.
DirectoryProject ==
  [p \in { << <<"R","E","A","D","M","E",".","m","d">>, <<"x",".","p","y">> >>, labs_md, helper_py } |-> {}]

\* A project whose references go three steps: README.md refers to
\* lib/helper.py, that to old_notes.txt, and that to other/build.py.
ThreeStepProject ==
  [p \in {README, helper_py, old_notes, build_py} |->
     IF p = README THEN { <<"l","i","b","/","h","e","l","p","e","r",".","p","y">> }
     ELSE IF p = helper_py THEN { <<".","/","o","l","d","_","n","o","t","e","s",".","t","x","t">> }
     ELSE IF p = old_notes THEN { <<"o","t","h","e","r","/","b","u","i","l","d",".","p","y">> }
     ELSE {}]

\* The directories a set of files lies in.
DirsOf(files) ==
  UNION {{SubSeq(p, 1, n) : n \in 0..(Len(p) - 1)} : p \in files}

\* The state after UnusedFileArchiver(project_root, dry_run, verbose): the
\* root is a directory, whether it holds a file or not.
ArchiverInit ==
  /\ fs \in SmallProjects \cup {DirectoryProject, ThreeStepProject}
  /\ dry_run \in BOOLEAN
  /\ dirs = {<<>>} \cup DirsOf(DOMAIN fs)
  /\ verbose \in BOOLEAN
  /\ all_files = {}
  /\ used_files = {}
  /\ log_lines = <<>>
  /\ pc = "start"
  /\ ref_idx = 1
  /\ iteration = 0
  /\ files_to_check = {}
  /\ new_refs_found = 0
  /\ source_file = None
  /\ unused_files = {}
  /\ queue = <<>>
  /\ archived_count = 0
  /\ failed_count = 0
  /\ calls = <<>>

(***************************************************************************)
(* run_analysis                                                            *)
(***************************************************************************)

\* run(), lines 399-407: the banner between two rules, and the warning
\* when the root holds no .git.
RunBanner(lines) ==
  LET banner ==
        log(log(log(log(lines, "INFO", "====", <<>>),
                    "INFO", "Starting Unused File Archiver", <<>>),
                "INFO", IF dry_run THEN "Mode: DRY-RUN" ELSE "Mode: LIVE",
                <<>>),
            "INFO", "====", <<>>)
  IN  IF << <<".","g","i","t">> >> \notin dirs \cup DOMAIN fs
      THEN log(banner, "WARNING", "Warning: Not a git repository", <<>>)
      ELSE banner

\* The entries of run() and of run_analysis up to step 1.
StartLog(lines) ==
  log(log(log(RunBanner(lines),
              "INFO", "Starting unused file analysis...", <<>>),
          "INFO", "Project root", <<>>),
      "INFO", "Found total files to analyze",
      <<Cardinality(get_all_project_files(DOMAIN fs))>>)

\* run() up to run_analysis step 1: the banner, the git warning, the walk.
StartAnalysis ==
  /\ pc = "start"
  /\ all_files' = get_all_project_files(DOMAIN fs)
  /\ log_lines' = StartLog(log_lines)
  /\ pc' = "setup"
  /\ UNCHANGED <<fs, dirs, dry_run, verbose, used_files, ref_idx, iteration,
                 files_to_check, new_refs_found, source_file, unused_files,
                 queue, archived_count, failed_count, calls>>

\* The part of the state the analysis works on, as a record: st.used is
\* self.used_files, st.lines self.log_lines, st.found new_refs_found and
\* st.source the file analysed last.
Analysis(used, lines, found, source) ==
  [used |-> used, lines |-> lines, found |-> found, source |-> source]

\* Step 2 from the state st: the states it can end in, one for each
\* iteration order of the set all_files.
SetupStates(st) ==
  { LET marked == MarkEach(order, <<"setup file">>,
                           [used |-> st.used, lines |-> st.lines])
    IN  [st EXCEPT !.used = marked.used,
                   !.lines = log(marked.lines, "INFO",
                                 "Marked setup/config files as used",
                                 <<Len(order)>>)]
    : order \in Orders({f \in all_files : is_setup_file(f)}) }

\* Step 2: every setup file is marked used, in the iteration order of
\* the set all_files.
MarkSetupFiles ==
  /\ pc = "setup"
  /\ \E st \in SetupStates(Analysis(used_files, log_lines, new_refs_found,
                                     source_file)) :
       /\ used_files' = st.used
       /\ log_lines' = st.lines
  /\ pc' = "primary"
  /\ ref_idx' = 1
  /\ UNCHANGED <<fs, dirs, dry_run, verbose, all_files, iteration,
                 files_to_check, new_refs_found, source_file, unused_files,
                 queue, archived_count, failed_count, calls>>

\* full_path.exists(): a regular file or a directory.
Exists(path) == path \in DOMAIN fs \cup dirs

\* Step 3 for one primary reference file, from the state st: the states
\* it can end in.  The file is marked used and analysed when it exists.
PrimaryStates(ref_file, st) ==
  LET full_path == JoinResolve(<<>>, ref_file)
  IN  IF Exists(full_path)
      THEN LET marked == mark_file_used(
                           full_path, <<"primary reference file">>,
                           [used |-> st.used, lines |-> st.lines])
           IN  { [st EXCEPT !.used = found.used,
                            !.source = full_path,
                            !.lines = log(found.lines, "INFO",
                                          "Analyzed references from",
                                          full_path)]
                 : found \in analyze_references_from_file(
                               full_path, <<"referenced in", ref_file>>,
                               marked.used, marked.lines, all_files, fs) }
      ELSE { [st EXCEPT !.lines = debug(st.lines,
                                        "Primary reference file not found",
                                        ref_file)] }

\* Step 3, one primary reference file.
AnalyzePrimaryRef ==
  /\ pc = "primary"
  /\ ref_idx <= Len(PRIMARY_REF_FILES)
  /\ \E st \in PrimaryStates(PRIMARY_REF_FILES[ref_idx],
                              Analysis(used_files, log_lines, new_refs_found,
                                       source_file)) :
       /\ used_files' = st.used
       /\ source_file' = st.source
       /\ log_lines' = st.lines
  /\ ref_idx' = ref_idx + 1
  /\ pc' = IF ref_idx = Len(PRIMARY_REF_FILES) THEN "loop" ELSE "primary"
  /\ UNCHANGED <<fs, dirs, dry_run, verbose, all_files, iteration,
                 files_to_check, new_refs_found, unused_files, queue,
                 archived_count, failed_count, calls>>

\* A while condition that lets one pass too many through.
LoopContinues_inclusive(n) == n <= max_iterations

\* The condition of the while loop.
LoopContinues(n) == n < max_iterations

\* Step 4, the head of the while loop: a pass begins while iteration is
\* under the cap; at the cap the loop is left.
BeginIteration ==
  /\ pc = "loop"
  /\ IF LoopContinues(iteration)
     THEN /\ iteration' = iteration + 1
          /\ files_to_check' = used_files
          /\ new_refs_found' = 0
          /\ pc' = "scan"
     ELSE /\ pc' = "classify"
          /\ UNCHANGED <<iteration, files_to_check, new_refs_found>>
  /\ UNCHANGED <<fs, dirs, dry_run, verbose, all_files, used_files, log_lines,
                 ref_idx, source_file, unused_files, queue, archived_count,
                 failed_count, calls>>

\* The files that may come next in the pass: list(self.used_files) has
\* the iteration order of a set, any file left may be the next.
NextToScan(remaining) == remaining

\* The body of the for loop for one file, from the state st: the states
\* it can end in.  The file is analysed when its suffix is a scanned one.
ScanStates(file_path, st) ==
  IF IsScanned(file_path)
  THEN { [used   |-> found.used,
          lines  |-> found.lines,
          found  |-> st.found + Cardinality(found.newly),
          source |-> file_path]
         : found \in analyze_references_from_file(
                       file_path, <<"transitive reference">>,
                       st.used, st.lines, all_files, fs) }
  ELSE {st}

\* One file of the pass.
ScanFile ==
  /\ pc = "scan"
  /\ files_to_check # {}
  /\ \E file_path \in NextToScan(files_to_check) :
       /\ files_to_check' = files_to_check \ {file_path}
       /\ \E st \in ScanStates(file_path,
                                Analysis(used_files, log_lines,
                                         new_refs_found, source_file)) :
            /\ used_files' = st.used
            /\ log_lines' = st.lines
            /\ new_refs_found' = st.found
            /\ source_file' = st.source
  /\ UNCHANGED <<fs, dirs, dry_run, verbose, all_files, pc, ref_idx,
                 iteration, unused_files, queue, archived_count,
                 failed_count, calls>>

\* The entries after the pass n that found `found` new files.
EndLines(lines, n, found) ==
  IF found = 0 THEN lines
  ELSE debug(lines, "Iteration: found new referenced files", <<n, found>>)

\* The end of a pass: break when it found nothing, else back to the head.
EndIteration ==
  /\ pc = "scan"
  /\ files_to_check = {}
  /\ pc' = IF new_refs_found = 0 THEN "classify" ELSE "loop"
  /\ log_lines' = EndLines(log_lines, iteration, new_refs_found)
  /\ UNCHANGED <<fs, dirs, dry_run, verbose, all_files, used_files,
                 ref_idx, iteration, files_to_check, new_refs_found,
                 source_file, unused_files, queue, archived_count,
                 failed_count, calls>>

\* After the loop: the unused files are computed and returned.
ComputeUnused ==
  /\ pc = "classify"
  /\ unused_files' = UnusedOf(all_files, used_files)
  /\ log_lines' =
       log(log(log(log_lines,
                   "INFO", "Reference analysis complete after iterations",
                   <<iteration>>),
               "INFO", "Total used files", <<Cardinality(used_files)>>),
           "INFO", "Unused files identified",
           <<Cardinality(UnusedOf(all_files, used_files))>>)
  /\ pc' = "archive"
  /\ UNCHANGED <<fs, dirs, dry_run, verbose, all_files, used_files, ref_idx,
                 iteration, files_to_check, new_refs_found, source_file,
                 queue, archived_count, failed_count, calls>>


(***************************************************************************)
(* The deep project near the cap                                           *)
(***************************************************************************)

\* The files of a set in the order of the chain of the deep project: one
\* of the orders list(self.used_files) can give.
InChainOrder(files) ==
  SelectSeq(<<labs_md>> \o [i \in 1..ChainLen |-> <<ChainName(i)>>],
            LAMBDA f : f \in files)

\* Step 3 on each primary reference file of a list: one of the states it
\* can end in.
RECURSIVE PrimaryEach(_, _)
PrimaryEach(ref_files, st) ==
  IF ref_files = <<>> THEN st
  ELSE CHOOSE end \in {PrimaryEach(Tail(ref_files), next)
                         : next \in PrimaryStates(Head(ref_files), st)} : TRUE

\* The body of the for loop on each file of a list: one of the states it
\* can end in.
RECURSIVE ScanEach(_, _)
ScanEach(order, st) ==
  IF order = <<>> THEN st
  ELSE CHOOSE end \in {ScanEach(Tail(order), next)
                         : next \in ScanStates(Head(order), st)} : TRUE

\* The state after the passes 1..n of the while loop, each over its files
\* in the order of the chain; a pass that found nothing is the last.
RECURSIVE PassesDone(_, _)
PassesDone(st, n) ==
  IF n = 0 THEN st
  ELSE CHOOSE end \in
         { IF n > 1 /\ before.found = 0 THEN before
           ELSE CHOOSE passed \in
                  { [after EXCEPT !.lines = EndLines(after.lines, n,
                                                    after.found)]
                    : after \in {ScanEach(InChainOrder(before.used),
                                          [before EXCEPT !.found = 0])} }
                  : TRUE
           : before \in {PassesDone(st, n - 1)} } : TRUE

\* A state of a dry run on the deep project, in the last pass the cap
\* allows: the run has come from the construction through the steps 1 to
\* 3 and the passes before, taking the files of each pass in the order of
\* the chain, and the pass has LateLeft files left.  (The run of the deep
\* project is taken up here, not at its construction: a pass over n files
\* has 2^n sets of files left.)
CapInit ==
  /\ fs = ChainProject
  /\ dry_run = TRUE
  /\ dirs = {<<>>} \cup DirsOf(DOMAIN fs)
  /\ verbose \in BOOLEAN
  /\ all_files = get_all_project_files(DOMAIN fs)
  /\ pc = "scan"
  /\ ref_idx = Len(PRIMARY_REF_FILES) + 1
  /\ iteration = max_iterations
  /\ \E setup \in {CHOOSE st \in SetupStates(
                                   Analysis({}, StartLog(<<>>), 0, None))
                       : TRUE} :
     \E primary \in {PrimaryEach(PRIMARY_REF_FILES, setup)} :
     \E passed \in {PassesDone(primary, max_iterations - 1)} :
     \E order \in {InChainOrder(passed.used)} :
       /\ passed.found > 0
       /\ Len(order) >= LateLeft
       /\ \E late \in {ScanEach(SubSeq(order, 1, Len(order) - LateLeft),
                                 [passed EXCEPT !.found = 0])} :
          /\ used_files = late.used
          /\ log_lines = late.lines
          /\ new_refs_found = late.found
          /\ source_file = late.source
          /\ files_to_check =
               Range(SubSeq(order, Len(order) - LateLeft + 1, Len(order)))
  /\ unused_files = {}
  /\ queue = <<>>
  /\ archived_count = 0
  /\ failed_count = 0
  /\ calls = <<>>
(***************************************************************************)
(* archive_files and write_log                                             *)
(***************************************************************************)

\* The proper and improper prefixes of a directory path, the root left out:
\* what mkdir(parents=True) has to find or make.
Prefixes(dir) == {SubSeq(dir, 1, n) : n \in 1..Len(dir)}

\* mkdir(parents=True, exist_ok=True) raises when a regular file stands
\* where a directory is needed.
MkdirRaises(dir, files) == \E d \in Prefixes(dir) : d \in files

\* Where git mv and shutil.move put a file: inside the destination when
\* that is an existing directory, else at the destination.
Landing(src, dst, directories) ==
  IF dst \in directories THEN dst \o <<Name(src)>> ELSE dst

\* The file system after a file has moved to dst, the place it lands
\* (in the projects of the model no file lies there before).
Move(files, src, dst) ==
  [p \in (DOMAIN files \ {src}) \cup {dst} |->
     IF p = dst THEN files[src] ELSE files[p]]

\* One entry of the trace of the external moves.
Call(op, src, dst, result) ==
  [op |-> op, src |-> src, dst |-> dst, result |-> result]

\* run(): the list of the unused files, logged before archiving.
RECURSIVE LogEach(_, _)
LogEach(lines, paths) ==
  IF paths = <<>> THEN lines
  ELSE LogEach(log(lines, "INFO", "  - ", Head(paths)), Tail(paths))

\* run()'s summary and the head of archive_files: nothing to do for an
\* empty set; else the archive directory is made (live mode) and the
\* counters start at zero.  A mkdir that raises ends run() with the
\* exception.
ArchiveBegin ==
  /\ pc = "archive"
  /\ IF unused_files = {}
     THEN /\ log_lines' = log(log_lines, "INFO", "No files to archive", <<>>)
          /\ pc' = "write_log"
          /\ UNCHANGED <<dirs, queue>>
     ELSE /\ log_lines' =
               LogEach(log(log_lines, "INFO", "Unused files to be archived:",
                           <<>>),
                       Sorted(unused_files))
          /\ IF ~dry_run /\ archive_dir \in DOMAIN fs
             THEN /\ pc' = "crashed"
                  /\ UNCHANGED <<dirs, queue>>
             ELSE /\ dirs' = IF dry_run THEN dirs ELSE dirs \cup {archive_dir}
                  /\ queue' = Sorted(unused_files)
                  /\ pc' = "archiving"
  /\ archived_count' = 0
  /\ failed_count' = 0
  /\ UNCHANGED <<fs, dry_run, verbose, all_files, used_files, ref_idx, iteration,
                 files_to_check, new_refs_found, source_file, unused_files,
                 calls>>

\* What git mv can answer: exit status 0, another exit status, or
\* subprocess.run raising.
GitOutcomes == {"0", "nonzero", "raise"}

\* What shutil.move can do: move the file, or raise.
MoveOutcomes == {"moved", "raise"}

\* A dry-run body that makes the destination directory before it
\* continues.
ArchiveDryRun_mkdir(rel_path) ==
  /\ log_lines' = log(log_lines, "INFO", "[DRY-RUN] Would archive", rel_path)
  /\ archived_count' = archived_count + 1
  /\ pc' = "archiving"
  /\ dirs' = dirs \cup Prefixes(Parent(archive_dir \o rel_path))
  /\ UNCHANGED <<fs, failed_count, calls>>

\* The body of the for loop in dry-run mode (lines 339-342).
ArchiveDryRun(rel_path) ==
  /\ log_lines' = log(log_lines, "INFO", "[DRY-RUN] Would archive", rel_path)
  /\ archived_count' = archived_count + 1
  /\ pc' = "archiving"
  /\ UNCHANGED <<fs, dirs, failed_count, calls>>

\* A test of the exit status that takes every answer of git for success.
GitMoved_any(git) == git \in {"0", "nonzero"}

\* result.returncode == 0
GitMoved(git) == git = "0"

\* The body of the for loop in live mode (lines 344-367).  git mv moves
\* the file exactly when it exits with status 0.
ArchiveLive(rel_path, dest_path) ==
  IF MkdirRaises(Parent(dest_path), DOMAIN fs)
  THEN \* dest_path.parent.mkdir stands before the try: the exception
       \* leaves archive_files and run().
       /\ pc' = "crashed"
       /\ UNCHANGED <<fs, dirs, log_lines, archived_count, failed_count,
                      calls>>
  ELSE
    /\ dirs' = dirs \cup Prefixes(Parent(dest_path))
    /\ pc' = "archiving"
    /\ \E git \in GitOutcomes :
         LET landing   == Landing(rel_path, dest_path, dirs)
             after_git == IF git = "0" THEN Move(fs, rel_path, landing)
                          ELSE fs
             git_call  == Call("git mv", rel_path, dest_path, git)
         IN  IF git = "raise"
             THEN /\ calls' = Append(calls, git_call)
                  /\ log_lines' = log(log_lines, "ERROR",
                                      "Failed to archive", rel_path)
                  /\ failed_count' = failed_count + 1
                  /\ UNCHANGED <<fs, archived_count>>
             ELSE IF GitMoved(git)
             THEN /\ calls' = Append(calls, git_call)
                  /\ fs' = after_git
                  /\ log_lines' = log(log_lines, "INFO", "Archived", rel_path)
                  /\ archived_count' = archived_count + 1
                  /\ UNCHANGED failed_count
             ELSE \E mv \in MoveOutcomes :
                  LET told == debug(log_lines,
                                    "git mv failed, trying regular move",
                                    <<>>)
                  IN
                  /\ calls' = Append(Append(calls, git_call),
                                     Call("shutil.move", rel_path, dest_path,
                                          mv))
                  /\ IF mv = "moved"
                     THEN /\ fs' = Move(after_git, rel_path, landing)
                          /\ log_lines' = log(told, "INFO",
                                              "Moved (untracked)", rel_path)
                          /\ archived_count' = archived_count + 1
                          /\ UNCHANGED failed_count
                     ELSE /\ fs' = after_git
                          /\ log_lines' = log(told, "ERROR",
                                              "Failed to archive", rel_path)
                          /\ failed_count' = failed_count + 1
                          /\ UNCHANGED archived_count

\* One turn of the for loop over sorted(unused_files).
ArchiveFile ==
  /\ pc = "archiving"
  /\ queue # <<>>
  /\ LET rel_path  == Head(queue)
         dest_path == archive_dir \o rel_path
     IN  IF dry_run THEN ArchiveDryRun(rel_path)
         ELSE ArchiveLive(rel_path, dest_path)
  /\ queue' = Tail(queue)
  /\ UNCHANGED <<dry_run, verbose, all_files, used_files, ref_idx, iteration,
                 files_to_check, new_refs_found, source_file, unused_files>>

\* After the for loop: the totals are logged and archive_files returns.
ArchiveEnd ==
  /\ pc = "archiving"
  /\ queue = <<>>
  /\ log_lines' = log(log_lines, "INFO", "Archive complete",
                      <<archived_count, failed_count>>)
  /\ pc' = "write_log"
  /\ UNCHANGED <<fs, dirs, dry_run, verbose, all_files, used_files, ref_idx,
                 iteration, files_to_check, new_refs_found, source_file,
                 unused_files, queue, archived_count, failed_count, calls>>

\* write_log: the path of the log file (the timestamp is written T).
LogPath ==
  IF dry_run THEN << <<"a","r","c","h","i","v","e","_","d","r","y","_","r","u","n","_","T",".","t","x","t">> >>
  ELSE archive_dir \o << <<"a","r","c","h","i","v","e","_","l","o","g","_","T",".","t","x","t">> >>

\* write_log: the header put before the entries.
LogHeader ==
  << LogEntry("", "====", <<>>),
     LogEntry("", "UNUSED FILE ARCHIVE LOG", <<>>),
     LogEntry("", "Project", <<>>),
     LogEntry("", "Date", <<>>),
     LogEntry("", IF dry_run THEN "Mode: DRY-RUN" ELSE "Mode: LIVE", <<>>),
     LogEntry("", "====", <<>>),
     LogEntry("", "", <<>>) >>

\* str(path): the parts joined by "/", without the leading one.
RECURSIVE PathText(_)
PathText(path) ==
  IF path = <<>> THEN <<>>
  ELSE IF Len(path) = 1 THEN path[1]
  ELSE path[1] \o <<"/">> \o PathText(Tail(path))

\* str.endswith
EndsWith(s, p) ==
  Len(p) <= Len(s) /\ SubSeq(s, Len(s) - Len(p) + 1, Len(s)) = p

\* The words after which the patterns of extract_references take the next
\* token of a text as a reference (lines 173 and 177, case ignored).
CommandWords ==
  { <<"b","a","s","h">>, <<"p","y","t","h","o","n">>, <<"s","h">>, <<"s","o","u","r","c","e">>,
    <<"c","o","d","e">>, <<"c","a","t">>, <<"c","p">>, <<"m","v">>, <<"r","m">>, <<"l","s">> }

\* What the patterns capture behind a text that white space follows: the
\* next token, when the text ends in a command word.
AfterCommand(text, token) ==
  IF \E w \in CommandWords : EndsWith(Lower(text), w) THEN {token} ELSE {}

\* What the pattern of line 175 captures from a path between quotes: the
\* path without its leading "/", when it is made of the characters of the
\* pattern and ends in a dot and letters or digits.
QuotedFile(path) ==
  LET text  == PathText(path)
      dot   == RFind(text, ".")
      alnum == UpperCase \o LowerCase \o <<"0","1","2","3","4","5","6","7","8","9">>
      chars == alnum \o <<"_","-",".","/">>
  IN  IF /\ 1 < dot
         /\ dot < Len(text)
         /\ \A i \in 1..Len(text) : IndexOf(text[i], chars) > 0
         /\ \A i \in (dot + 1)..Len(text) : IndexOf(text[i], alnum) > 0
      THEN {text} ELSE {}

\* The first token of the reason in a "Marked as used" entry.
ReasonHead(reason) ==
  IF Len(reason) = 1
  THEN IF reason[1] = "setup file" THEN <<"(","s","e","t","u","p">> ELSE <<"(","p","r","i","m","a","r","y">>
  ELSE IF Len(reason[1]) = 2 THEN <<"(","r","e","f","e","r","e","n","c","e","d">> ELSE <<"(","t","r","a","n","s","i","t","i","v","e">>

\* What the patterns of extract_references capture from one entry of the
\* written log, as the sets the text of the entry can give: the token
\* behind a path that ends in a command word, "failed," behind "git mv",
\* the quoted path of the error of a directory that was opened, and for a
\* failed move any of its paths (the file, its destination, the place it
\* was to land), as the text of the exception names them or not.  The
\* token behind a path that ends its line is the head of the next entry,
\* the bracket and the date (the timestamp is written T).
EntryCaptures(e) ==
  LET EntryHead == <<"[","T">> IN
  IF e.text = "Marked as used"
  THEN {AfterCommand(Name(e.about[1]), ReasonHead(e.about[2]))}
  ELSE IF e.text \in {"Archived", "Moved (untracked)"}
  THEN {AfterCommand(Name(e.about), <<"-",">">>)
          \cup AfterCommand(Name(e.about), EntryHead)}
  ELSE IF e.text \in {"  - ", "[DRY-RUN] Would archive",
                      "Analyzed references from"}
  THEN {AfterCommand(Name(e.about), EntryHead)}
  ELSE IF e.text = "Primary reference file not found"
  THEN {AfterCommand(e.about, EntryHead)}
  ELSE IF e.text = "git mv failed, trying regular move"
  THEN {{ <<"f","a","i","l","e","d",",">> }}
  ELSE IF e.text = "Could not read"
  THEN {QuotedFile(project_root \o e.about)}
  ELSE IF e.text = "Failed to archive"
  THEN SUBSET (QuotedFile(project_root \o e.about)
                 \cup QuotedFile(project_root \o archive_dir \o e.about)
                 \cup QuotedFile(project_root \o
                                  Landing(e.about, archive_dir \o e.about,
                                          dirs)))
  ELSE {{}}

\* What the patterns capture from the written log: the sets its entries
\* can give together.
RECURSIVE LogCaptures(_)
LogCaptures(lines) ==
  IF lines = <<>> THEN {{}}
  ELSE {here \cup rest : here \in EntryCaptures(Head(lines)),
                         rest \in LogCaptures(Tail(lines))}

\* write_log: the header is inserted and the log written; a failure to
\* write is printed and nothing else.  The file holds the text of the
\* entries, and with it what the patterns capture from them.
WriteLog ==
  /\ pc = "write_log"
  /\ log_lines' = LogHeader \o log_lines
  /\ IF MkdirRaises(Parent(LogPath), DOMAIN fs)
     THEN UNCHANGED <<fs, dirs>>
     ELSE /\ dirs' = dirs \cup Prefixes(Parent(LogPath))
          /\ \E captures \in LogCaptures(log_lines) :
               fs' = [p \in DOMAIN fs \cup {LogPath} |->
                        IF p = LogPath THEN captures ELSE fs[p]]
  /\ pc' = "done"
  /\ UNCHANGED <<dry_run, verbose, all_files, used_files, ref_idx, iteration,
                 files_to_check, new_refs_found, source_file, unused_files,
                 queue, archived_count, failed_count, calls>>
(***************************************************************************)
(* mcp_server_classification.py: the caches and their users                *)
(***************************************************************************)

\* How many documents the vector store is let hold.
MaxDocs == 2

\* How many tool calls one run of the server is let serve.
MaxToolCalls == 3

VARIABLES
  embed_model,           \* _embed_model: None or a handle
  chroma_client,         \* _chroma_client: None or a handle
  knowledge_collection,  \* _knowledge_collection: None or a handle
  embed_loads,           \* how often SentenceTransformer(...) was built
  client_opens,          \* how often chromadb.PersistentClient(...) was built
  collection_opens,      \* how often get_or_create_collection returned
  chroma_path_exists,    \* CHROMA_PATH.exists()
  store_count,           \* the documents in the store on disk
  index_tool_exists,     \* INDEX_TOOL_PATH.exists()
  kb_dir_exists,         \* KNOWLEDGE_BASE_DIR.exists()
  spc,                   \* where the server process stands
  tool_calls,            \* the tool calls served so far
  reply,                 \* the outcome of the last operation
  search_result,         \* get_knowledge_for_query: search_result
  answer,                \* the dict the last tool call returned
  user_query             \* the text the last classify / validate call was given

svars ==
  <<embed_model, chroma_client, knowledge_collection, embed_loads,
    client_opens, collection_opens, chroma_path_exists, store_count,
    index_tool_exists, kb_dir_exists, spc, tool_calls, reply,
    search_result, answer, user_query>>

\* No dict: no tool call has returned (or the local is out of scope).
NoResult == [none |-> TRUE]

\* A handle is told from the others by the count of its construction.
Handle(n) == <<n>>

\* What building a collaborator can do.
LoadOutcomes == {"ok", "raise"}

\* A _get_embed_model that builds the model on every call.
get_embed_model_uncached(c, outcome) ==
  IF outcome = "ok"
  THEN [model |-> Handle(c.loads + 1), loads |-> c.loads + 1,
        raised |-> FALSE]
  ELSE [model |-> c.model, loads |-> c.loads, raised |-> TRUE]

\* _get_embed_model: c is [model, loads]; the result adds raised.
get_embed_model(c, outcome) ==
  IF c.model = None
  THEN IF outcome = "ok"
       THEN [model |-> Handle(c.loads + 1), loads |-> c.loads + 1,
             raised |-> FALSE]
       ELSE [model |-> None, loads |-> c.loads, raised |-> TRUE]
  ELSE [model |-> c.model, loads |-> c.loads, raised |-> FALSE]

\* _get_chroma_collection, the client: c is [client, collection, opens,
\* copens]; PersistentClient is built only while the cache is empty.
OpenClient(c, outcome) ==
  IF c.client = None
  THEN IF outcome = "ok"
       THEN [c EXCEPT !.client = Handle(c.opens + 1), !.opens = c.opens + 1]
       ELSE c
  ELSE c

\* _get_chroma_collection, the collection of an open client.
OpenCollection(c, outcome) ==
  IF c.collection = None
  THEN IF outcome = "ok"
       THEN [c EXCEPT !.collection = Handle(c.copens + 1),
                      !.copens = c.copens + 1]
       ELSE c
  ELSE c

\* _get_chroma_collection: the caches after the call; it raised when a
\* cache it needs is still empty.
get_chroma_collection(c, client_outcome, collection_outcome) ==
  LET opened == OpenClient(c, client_outcome)
  IN  IF opened.client = None THEN opened
      ELSE OpenCollection(opened, collection_outcome)

\* The vector-store caches of the state, as get_chroma_collection takes them.
ChromaCaches ==
  [client |-> chroma_client, collection |-> knowledge_collection,
   opens |-> client_opens, copens |-> collection_opens]

\* The caches with both handles reset to None (lines 76-77, 116-117).
ResetCaches(c) == [c EXCEPT !.client = None, !.collection = None]

SetChroma(c) ==
  /\ chroma_client' = c.client
  /\ knowledge_collection' = c.collection
  /\ client_opens' = c.opens
  /\ collection_opens' = c.copens

\* The state when the module has been loaded.
ServerInit ==
  /\ embed_model = None
  /\ chroma_client = None
  /\ knowledge_collection = None
  /\ embed_loads = 0
  /\ client_opens = 0
  /\ collection_opens = 0
  /\ chroma_path_exists \in BOOLEAN
  /\ store_count \in 0..MaxDocs
  /\ (~chroma_path_exists => store_count = 0)
  /\ index_tool_exists \in BOOLEAN
  /\ kb_dir_exists \in BOOLEAN
  /\ spc = "startup"
  /\ tool_calls = 0
  /\ reply = "none"
  /\ search_result = NoResult
  /\ answer = NoResult
  /\ user_query = <<>>

\* What the indexing subprocess can answer.
IndexOutcomes == {"0", "nonzero", "raise"}

\* _index_knowledge_base, from the subprocess on (lines 89-123): c holds
\* the caches when the tool is run.
RunIndexTool(c) ==
  \E result \in IndexOutcomes, docs \in 0..MaxDocs,
     o1 \in LoadOutcomes, o2 \in LoadOutcomes :
    IF result = "0"
    THEN LET after == get_chroma_collection(ResetCaches(c), o1, o2)
         IN  /\ SetChroma(after)
             /\ store_count' = docs
             /\ chroma_path_exists' = TRUE
             /\ reply' = IF after.collection = None THEN "index error"
                         ELSE "indexed"
    ELSE /\ SetChroma(c)
         /\ docs = store_count
         /\ o1 = "ok" /\ o2 = "ok"
         /\ reply' = IF result = "raise" THEN "index error"
                     ELSE "index failed"
         /\ UNCHANGED <<store_count, chroma_path_exists>>

\* _index_knowledge_base from line 79 on: c holds the caches.
IndexFrom(c) ==
  IF ~index_tool_exists \/ ~kb_dir_exists
  THEN /\ SetChroma(c)
       /\ reply' = "index tool not found"
       /\ UNCHANGED <<store_count, chroma_path_exists>>
  ELSE RunIndexTool(c)

\* _index_knowledge_base, called once when the process starts.
IndexKnowledgeBase ==
  /\ spc = "startup"
  /\ IF chroma_path_exists
     THEN \E o1 \in LoadOutcomes, o2 \in LoadOutcomes :
            LET got == get_chroma_collection(ChromaCaches, o1, o2)
            IN  IF got.collection = None
                THEN \* the call stands outside the try: startup ends
                     /\ SetChroma(got)
                     /\ spc' = "crashed"
                     /\ reply' = "exception"
                     /\ UNCHANGED <<store_count, chroma_path_exists>>
                ELSE IF store_count > 0
                THEN /\ SetChroma(got)
                     /\ spc' = "indexed"
                     /\ reply' = "already indexed"
                     /\ UNCHANGED <<store_count, chroma_path_exists>>
                ELSE /\ IndexFrom(ResetCaches(got))
                     /\ spc' = "indexed"
     ELSE /\ IndexFrom(ChromaCaches)
          /\ spc' = "indexed"
  /\ UNCHANGED <<embed_model, embed_loads, index_tool_exists, kb_dir_exists,
                 tool_calls, search_result, answer, user_query>>

(***************************************************************************)
(* mcp_server_classification.py: the knowledge base and the retrieval      *)
(***************************************************************************)

\* category=None
NoneCategory == "<None>"

\* DOCUMENT_CATEGORIES: the documents each category is searched in.
DOCUMENT_CATEGORIES ==
  [c \in {"account_security", "shipping_inquiry", "returns_refunds"} |->
     IF c = "account_security" THEN { <<"s","e","c","u","r","i","t","y",".","p","d","f">> }
     ELSE IF c = "shipping_inquiry" THEN { <<"s","h","i","p","p","i","n","g",".","p","d","f">> }
     ELSE { <<"r","e","t","u","r","n","s",".","p","d","f">> }]

\* The chunks the indexing tool stores, in the order it stores them: the
\* source and the text of chunk i.
DocSource(i) == IF i % 2 = 1 THEN <<"s","e","c","u","r","i","t","y",".","p","d","f">> ELSE <<"s","h","i","p","p","i","n","g",".","p","d","f">>

DocText(i) == <<"c","h","u","n","k"," ">> \o Digits(i)

\* The categories and result limits the tools are called with.
Categories == {NoneCategory, "account_security", "shipping_inquiry",
               "returns_refunds", "billing"}

TopKs == 1..MaxDocs

\* The where clause of the search: the chunks of a store of count chunks
\* the category filter lets through (an unrecognised category, or none,
\* filters nothing).
Eligible(count, category) ==
  {i \in 1..count :
     category # NoneCategory /\ category \in DOMAIN DOCUMENT_CATEGORIES
       => DocSource(i) \in DOCUMENT_CATEGORIES[category]}

\* collection.query(..., n_results=top_k, where=where_clause): the nearest
\* top_k eligible chunks, best first; the distances are the embedding's,
\* so any order of the chunks may be the order of distance.
QueryResults(count, top_k, category) ==
  {SubSeq(o, 1, IF top_k < Len(o) THEN top_k ELSE Len(o)) :
     o \in Orders(Eligible(count, category))}

\* matches: one entry for each result.
Matches(results) ==
  [k \in 1..Len(results) |->
     [document |-> DocText(results[k]),
      metadata |-> [source |-> DocSource(results[k])],
      distance |-> k,
      source   |-> DocSource(results[k])]]

\* The dict _vector_search_knowledge_internal returns: raised tells that
\* _get_embed_model raised, collection is the cache after
\* _get_chroma_collection (None: it raised).
vector_search_knowledge_internal(raised, collection, count, results, category) ==
  IF raised \/ collection = None THEN [error |-> "exception"]
  ELSE IF count = 0
  THEN [matches |-> <<>>, count |-> 0,
        error |-> "Knowledge base not indexed. Please run the server to index PDFs."]
  ELSE [matches |-> Matches(results), count |-> Len(results),
        category_filter |-> category]

\* The delimiter between the texts of the matches.
KnowledgeSeparator == <<"\n", "\n", "-", "-", "-", "\n", "\n">>

\* sep.join(parts)
RECURSIVE Join(_, _)
Join(parts, sep) ==
  IF parts = <<>> THEN <<>>
  ELSE IF Len(parts) = 1 THEN parts[1]
  ELSE parts[1] \o sep \o Join(Tail(parts), sep)

\* The sources of a list of matches.
SourcesOf(matches) == {matches[k].source : k \in 1..Len(matches)}

\* A get_knowledge_for_query without the test for an empty match list.
get_knowledge_for_query_joining(result, sources) ==
  IF "error" \in DOMAIN result THEN result
  ELSE [knowledge |->
          Join([k \in 1..Len(result.matches) |-> result.matches[k].document],
               KnowledgeSeparator),
        sources |-> IF result.matches = <<>> THEN <<>> ELSE sources]

\* get_knowledge_for_query, given the dict of the search (lines 313-333);
\* sources is list(sources), the set in the order the list has it.
get_knowledge_for_query(result, sources) ==
  IF "error" \in DOMAIN result THEN result
  ELSE IF result.matches = <<>>
  THEN [knowledge |-> <<"N","o"," ","r","e","l","e","v","a","n","t"," ","d","o","c","u","m","e","n","t","a","t","i","o","n"," ","f","o","u","n","d",".">>, sources |-> <<>>]
  ELSE [knowledge |->
          Join([k \in 1..Len(result.matches) |-> result.matches[k].document],
               KnowledgeSeparator),
        sources |-> sources]

\* The file name of a source: source.split("/")[-1].
FileName(source) == Split(source, "/")[Len(Split(source, "/"))]

\* doc_counts: the chunks of the store counted by file name, as pairs.
DocCounts(count) ==
  {<<name, Cardinality({i \in 1..count : FileName(DocSource(i)) = name})>> :
     name \in {FileName(DocSource(i)) : i \in 1..count}}

\* The dict _get_knowledge_base_stats_internal returns.
StatsResult(collection, count) ==
  IF collection = None THEN [error |-> "exception"]
  ELSE IF count = 0
  THEN [total_chunks |-> 0, documents |-> {}, status |-> "Not indexed"]
  ELSE [total_chunks |-> count, documents |-> DocCounts(count),
        status |-> "Indexed and ready"]

\* _get_knowledge_base_stats_internal: the caches after it, and its answer.
StatsInternal ==
  \E o1 \in LoadOutcomes, o2 \in LoadOutcomes :
    LET got == get_chroma_collection(ChromaCaches, o1, o2)
    IN  /\ SetChroma(got)
        /\ chroma_path_exists' = (chroma_path_exists \/ got.client # None)
        /\ reply' = IF got.collection = None THEN "error"
                    ELSE IF store_count = 0 THEN "Not indexed"
                    ELSE "Indexed and ready"
        /\ answer' = StatsResult(got.collection, store_count)

\* The statistics printed at startup (line 444); the server then serves.
StartupStats ==
  /\ spc = "indexed"
  /\ StatsInternal
  /\ spc' = "serving"
  /\ UNCHANGED <<embed_model, embed_loads, store_count, index_tool_exists,
                 kb_dir_exists, tool_calls, search_result, user_query>>

\* The tool get_knowledge_base_stats.
GetKnowledgeBaseStats ==
  /\ spc = "serving"
  /\ tool_calls < MaxToolCalls
  /\ StatsInternal
  /\ tool_calls' = tool_calls + 1
  /\ search_result' = NoResult
  /\ UNCHANGED <<embed_model, embed_loads, store_count, index_tool_exists,
                 kb_dir_exists, spc, user_query>>

\* _vector_search_knowledge_internal: the model, then the collection, then
\* the search; an exception becomes an error answer.  The dict it returns
\* is the answer of vector_search_knowledge, and the search_result of
\* get_knowledge_for_query (combined).
SearchInternal(top_k, category, combined) ==
  \E o0 \in LoadOutcomes, o1 \in LoadOutcomes, o2 \in LoadOutcomes :
    LET m   == get_embed_model([model |-> embed_model,
                                loads |-> embed_loads], o0)
        got == IF m.raised THEN ChromaCaches
               ELSE get_chroma_collection(ChromaCaches, o1, o2)
    IN  /\ embed_model' = m.model
        /\ embed_loads' = m.loads
        /\ SetChroma(got)
        /\ chroma_path_exists' = (chroma_path_exists \/ got.client # None)
        /\ reply' = IF m.raised \/ got.collection = None THEN "error"
                    ELSE IF store_count = 0 THEN "Knowledge base not indexed"
                    ELSE "matches"
        /\ \E results \in QueryResults(store_count, top_k, category) :
             LET found == vector_search_knowledge_internal(
                            m.raised, got.collection, store_count, results,
                            category)
             IN  IF combined
                 THEN /\ search_result' = found
                      /\ \E sources \in Orders(IF "error" \in DOMAIN found
                                               THEN {}
                                               ELSE SourcesOf(found.matches)) :
                           answer' = get_knowledge_for_query(found, sources)
                 ELSE /\ search_result' = NoResult
                      /\ answer' = found

\* The tool vector_search_knowledge.
VectorSearchKnowledge ==
  /\ spc = "serving"
  /\ tool_calls < MaxToolCalls
  /\ \E top_k \in TopKs, category \in Categories :
       SearchInternal(top_k, category, FALSE)
  /\ tool_calls' = tool_calls + 1
  /\ UNCHANGED <<store_count, index_tool_exists, kb_dir_exists, spc,
                 user_query>>

\* The tool get_knowledge_for_query.
GetKnowledgeForQuery ==
  /\ spc = "serving"
  /\ tool_calls < MaxToolCalls
  /\ \E top_k \in TopKs, category \in Categories :
       SearchInternal(top_k, category, TRUE)
  /\ tool_calls' = tool_calls + 1
  /\ UNCHANGED <<store_count, index_tool_exists, kb_dir_exists, spc,
                 user_query>>

(***************************************************************************)
(* mcp_server_classification.py: the tools that only compute               *)
(***************************************************************************)

\* How many words the generated queries have at most.
MaxWords == 2

\* sub in s, for str
Contains(s, sub) ==
  \E i \in 1..(Len(s) - Len(sub) + 1) : SubSeq(s, i, i + Len(sub) - 1) = sub

\* validate_support_query: inappropriate_words
inappropriate_words ==
  << <<"h","a","c","k">>, <<"e","x","p","l","o","i","t">>, <<"i","l","l","e","g","a","l">>, <<"c","r","a","c","k">> >>

\* A validate_support_query without the exception made for "hacked".
validate_support_query_no_exception(query) ==
  IF query = <<>> \/ Len(Strip(query, Whitespace)) < 3
  THEN [valid |-> FALSE, reason |-> "Query too short",
        suggestions |-> <<"Please provide more details about your issue">>]
  ELSE IF \E k \in 1..Len(inappropriate_words) :
             Contains(Lower(query), inappropriate_words[k])
  THEN [valid |-> FALSE, reason |-> "Query contains inappropriate content",
        suggestions |->
          <<"Please contact official support for this type of request">>]
  ELSE [valid |-> TRUE, reason |-> "Query is appropriate for customer support",
        suggestions |-> <<>>]

\* validate_support_query
validate_support_query(query) ==
  IF query = <<>> \/ Len(Strip(query, Whitespace)) < 3
  THEN [valid |-> FALSE, reason |-> "Query too short",
        suggestions |-> <<"Please provide more details about your issue">>]
  ELSE IF \E k \in 1..Len(inappropriate_words) :
             /\ Contains(Lower(query), inappropriate_words[k])
             /\ ~Contains(Lower(query), <<"h","a","c","k","e","d">>)
  THEN [valid |-> FALSE, reason |-> "Query contains inappropriate content",
        suggestions |->
          <<"Please contact official support for this type of request">>]
  ELSE [valid |-> TRUE, reason |-> "Query is appropriate for customer support",
        suggestions |-> <<>>]

(***************************************************************************)
(* classify_canonical_query                                                *)
(***************************************************************************)

\* The category registry, in the order the source lists its keys.
CategoryNames ==
  <<"account_security", "device_troubleshooting", "shipping_inquiry",
    "returns_refunds", "general_support">>

\* CANONICAL_QUERIES[name]["example_queries"]
example_queries(name) ==
  IF name = "account_security"
  THEN << <<"R","e","s","e","t"," ","m","y"," ","p","a","s","s","w","o","r","d">>, <<"M","y"," ","a","c","c","o","u","n","t"," ","w","a","s"," ","h","a","c","k","e","d">> >>
  ELSE IF name = "device_troubleshooting" THEN << <<"M","y"," ","d","e","v","i","c","e"," ","i","s"," ","b","r","o","k","e","n">> >>
  ELSE IF name = "shipping_inquiry" THEN << <<"T","r","a","c","k"," ","m","y"," ","o","r","d","e","r">> >>
  ELSE IF name = "returns_refunds" THEN << <<"R","e","t","u","r","n"," ","m","y"," ","o","r","d","e","r">> >>
  ELSE << <<"I"," ","n","e","e","d"," ","h","e","l","p">> >>

\* CANONICAL_QUERIES.items(): the categories with their examples, in order.
CANONICAL_QUERIES ==
  [k \in 1..Len(CategoryNames) |->
     [name |-> CategoryNames[k],
      example_queries |-> example_queries(CategoryNames[k])]]

\* keyword_maps.items(): the keywords of each category, in order.
keyword_maps ==
  << <<"account_security", << <<"p","a","s","s","w","o","r","d">>, <<"h","a","c","k","e","d">>, <<"a","c","c","o","u","n","t">> >> >>,
     <<"device_troubleshooting", << <<"d","e","v","i","c","e">>, <<"b","r","o","k","e","n">> >> >>,
     <<"shipping_inquiry", << <<"t","r","a","c","k">>, <<"o","r","d","e","r">>, <<"s","h","i","p">> >> >>,
     <<"returns_refunds", << <<"r","e","t","u","r","n">>, <<"r","e","f","u","n","d">> >> >>,
     <<"general_support", << <<"h","e","l","p">> >> >> >>

\* A score is a fraction <<numerator, denominator>> in lowest terms.
RECURSIVE GCD(_, _)
GCD(a, b) == IF b = 0 THEN a ELSE GCD(b, a % b)

Rat(n, d) == IF n = 0 THEN <<0, 1>> ELSE <<n \div GCD(n, d), d \div GCD(n, d)>>

RatLess(a, b) == a[1] * b[2] < b[1] * a[2]

RatMax(a, b) == IF RatLess(a, b) THEN b ELSE a

RatMin(a, b) == IF RatLess(b, a) THEN b ELSE a

\* str.split(): the words of a text, split at runs of white space.
RECURSIVE Words(_)
Words(s) ==
  LET t == LStrip(s, Whitespace)
      n == FirstOf(t, Whitespace)
  IN  IF t = <<>> THEN <<>>
      ELSE <<SubSeq(t, 1, n - 1)>> \o Words(SubSeq(t, n, Len(t)))

\* The first loop: the fraction of a category's keywords found in
\* user_lower (0 for a category without keywords).
KeywordScore(keywords, user_lower) ==
  IF keywords = <<>> THEN Rat(0, 1)
  ELSE Rat(Cardinality({k \in 1..Len(keywords) :
                          Contains(user_lower, keywords[k])}),
           Len(keywords))

\* scores after the first loop: an entry for each key of keyword_maps.
KeywordScores(user_lower) ==
  [k \in 1..Len(keyword_maps) |->
     <<keyword_maps[k][1], KeywordScore(keyword_maps[k][2], user_lower)>>]

\* scores.get(name, 0)
ScoreOf(scores, name) ==
  IF \E k \in 1..Len(scores) : scores[k][1] = name
  THEN scores[CHOOSE k \in 1..Len(scores) : scores[k][1] = name][2]
  ELSE Rat(0, 1)

\* scores[name] = value: a key that is new goes last.
SetScore(scores, name, value) ==
  IF \E k \in 1..Len(scores) : scores[k][1] = name
  THEN [k \in 1..Len(scores) |->
          IF scores[k][1] = name THEN <<name, value>> ELSE scores[k]]
  ELSE Append(scores, <<name, value>>)

\* overlap and similarity of one example (lines 192-198); similarity is
\* only used when overlap > 0.
Overlap(example, user_lower) ==
  Cardinality(Range(Words(Lower(example))) \cap Range(Words(user_lower)))

\* A similarity that divides by the size of the example alone.
Similarity_by_example(example, user_lower) ==
  Rat(Overlap(example, user_lower),
      Cardinality(Range(Words(Lower(example)))))

Similarity(example, user_lower) ==
  LET example_words == Range(Words(Lower(example)))
      user_words    == Range(Words(user_lower))
  IN  Rat(Overlap(example, user_lower),
          IF Cardinality(example_words) > Cardinality(user_words)
          THEN Cardinality(example_words) ELSE Cardinality(user_words))

\* The inner loop of the second loop: the examples of one category.
RECURSIVE ExampleLoop(_, _, _, _)
ExampleLoop(scores, name, examples, user_lower) ==
  IF examples = <<>> THEN scores
  ELSE ExampleLoop(
         IF Overlap(Head(examples), user_lower) > 0
         THEN SetScore(scores, name,
                       RatMax(ScoreOf(scores, name),
                              Similarity(Head(examples), user_lower)))
         ELSE scores,
         name, Tail(examples), user_lower)

\* The second loop: the categories of the registry, in order.
RECURSIVE CategoryLoop(_, _, _)
CategoryLoop(scores, categories, user_lower) ==
  IF categories = <<>> THEN scores
  ELSE CategoryLoop(
         ExampleLoop(scores, Head(categories).name,
                     Head(categories).example_queries, user_lower),
         Tail(categories), user_lower)

\* scores when both loops are done.
Scores(query) ==
  CategoryLoop(KeywordScores(Lower(query)), CANONICAL_QUERIES,
               Lower(query))

\* A max that keeps the last of the largest entries.
IndexOfMax_last(scores) ==
  CHOOSE k \in 1..Len(scores) :
    /\ \A j \in 1..Len(scores) : ~RatLess(scores[k][2], scores[j][2])
    /\ \A j \in (k + 1)..Len(scores) : RatLess(scores[j][2], scores[k][2])

\* max(scores, key=scores.get): the first of the largest entries.
IndexOfMax(scores) ==
  CHOOSE k \in 1..Len(scores) :
    /\ \A j \in 1..Len(scores) : ~RatLess(scores[k][2], scores[j][2])
    /\ \A j \in 1..(k - 1) : RatLess(scores[j][2], scores[k][2])

\* A sequence without its k-th element.
Without(s, k) == SubSeq(s, 1, k - 1) \o SubSeq(s, k + 1, Len(s))

\* sorted(scores.items(), key=lambda x: x[1], reverse=True): stable.
RECURSIVE SortedByScore(_)
SortedByScore(scores) ==
  IF scores = <<>> THEN <<>>
  ELSE <<scores[IndexOfMax(scores)]>>
         \o SortedByScore(Without(scores, IndexOfMax(scores)))

\* The entries with a positive score that are not the best one, in order
\* (the condition of the list comprehension, line 216).
RECURSIVE PositiveOthers(_, _)
PositiveOthers(s, best_query) ==
  IF s = <<>> THEN <<>>
  ELSE (IF RatLess(Rat(0, 1), Head(s)[2]) /\ Head(s)[1] # best_query
        THEN <<Head(s)>> ELSE <<>>)
         \o PositiveOthers(Tail(s), best_query)

\* The smallest j with n * 2^j >= d: the double nearest to n/d
\* (0 < n <= d) keeps the 53 bits of floor(n * 2^(52 + j) / d).
RECURSIVE Exponent(_, _)
Exponent(n, d) == IF n >= d THEN 0 ELSE 1 + Exponent(2 * n, d)

\* (n * 2^k) % d, by doublings that stay under 2 * d.
RECURSIVE ShiftedRemainder(_, _, _)
ShiftedRemainder(n, d, k) ==
  IF k = 0 THEN n % d ELSE (2 * ShiftedRemainder(n, d, k - 1)) % d

\* How the division score / len(...) of lines 188 and 198 rounds n/d to a
\* double (round to nearest, ties to even): 0 exact, 1 above, -1 below.
FloatError(n, d) ==
  LET k    == 52 + Exponent(n, d)
      prev == ShiftedRemainder(n, d, k - 1)
      rest == (2 * prev) % d
      odd  == (2 * prev) \div d = 1
  IN  IF rest = 0 THEN 0
      ELSE IF 2 * rest > d \/ (2 * rest = d /\ odd) THEN 1
      ELSE -1

\* f"{confidence:.2f}": the hundredths of the double, rounded as its exact
\* value rounds: a fraction halfway between two hundredths goes the way
\* its double lies, and to the even one when the double is exact.
Hundredths(r) ==
  LET q   == (100 * r[1]) \div r[2]
      rem == (100 * r[1]) % r[2]
      err == FloatError(r[1], r[2])
  IN  IF 2 * rem > r[2] THEN q + 1
      ELSE IF 2 * rem < r[2] THEN q
      ELSE IF err = 1 \/ (err = 0 /\ q % 2 = 1) THEN q + 1
      ELSE q

\* The answer for a query no category matched.
DefaultAnswer ==
  [suggested_query |-> "general_support",
   confidence |-> <<3, 10>>,
   alternatives |-> <<>>,
   reason |-> <<"No specific category matched, routing to general support">>]

\* A classifier without the test for a largest score of zero.
classify_canonical_query_no_default(query) ==
  LET scores == Scores(query)
  IN  IF scores = <<>> THEN DefaultAnswer
      ELSE LET best_query == scores[IndexOfMax(scores)][1]
               confidence == RatMin(ScoreOf(scores, best_query), <<1, 1>>)
               ranked     == PositiveOthers(SortedByScore(scores), best_query)
           IN  [suggested_query |-> best_query,
                confidence |-> confidence,
                alternatives |->
                  [k \in 1..(IF Len(ranked) < 2 THEN Len(ranked) ELSE 2) |->
                     [query |-> ranked[k][1], score |-> ranked[k][2]]],
                reason |-> <<"Matched to", best_query,
                             Hundredths(confidence)>>]

\* classify_canonical_query
classify_canonical_query(query) ==
  LET scores == Scores(query)
  IN  IF scores = <<>> \/ scores[IndexOfMax(scores)][2] = Rat(0, 1)
      THEN DefaultAnswer
      ELSE LET best_query == scores[IndexOfMax(scores)][1]
               confidence == RatMin(ScoreOf(scores, best_query), <<1, 1>>)
               ranked     == PositiveOthers(SortedByScore(scores), best_query)
           IN  [suggested_query |-> best_query,
                confidence |-> confidence,
                alternatives |->
                  [k \in 1..(IF Len(ranked) < 2 THEN Len(ranked) ELSE 2) |->
                     [query |-> ranked[k][1], score |-> ranked[k][2]]],
                reason |-> <<"Matched to", best_query,
                             Hundredths(confidence)>>]

(***************************************************************************)
(* The queries of the model and the two tools                              *)
(***************************************************************************)

\* The words the generated queries are made of.
Vocabulary ==
  { <<"m","y">>, <<"h","a","c","k","e","d">>, <<"h","a","c","k">>, <<"t","r","a","c","k">>, <<"o","r","d","e","r">>, <<"R","e","t","u","r","n">>,
    <<"h","e","l","p">>, <<"P","A","S","S","W","O","R","D">>, <<"w","e","a","t","h","e","r">>, <<"r","e","o","r","d","e","r","e","d">> }

\* " ".join(words)
JoinWords(words) == Join(words, <<" ">>)

\* Every example query of the registry.
AllExamples ==
  UNION {Range(CANONICAL_QUERIES[k].example_queries) :
           k \in 1..Len(CANONICAL_QUERIES)}

\* Queries written out: the short ones, the ones the validator is
\* documented with, and texts that hold whole example queries.
WrittenQueries ==
  { <<>>, << " " >>, <<"a","b">>, <<" ", "a", "b", "\n">>, <<"a", "b", "\r">>,
    <<"m", "y", "\f", "h", "e", "l", "p">>, <<"a","b","c">>, <<" ","a"," ","b"," ">>,
    <<"m","y"," ","a","c","c","o","u","n","t"," ","w","a","s"," ","h","a","c","k","e","d">>, <<"h","o","w"," ","d","o"," ","I"," ","h","a","c","k"," ","t","h","i","s"," ","d","e","v","i","c","e">>,
    <<"C","r","a","c","k"," ","t","h","e"," ","e","x","p","l","o","i","t">>, <<"I","l","l","e","g","a","l">>, <<"h","a","c","k","e","d"," ","b","y"," ","a","n"," ","e","x","p","l","o","i","t">>,
    <<"w","h","a","t"," ","i","s"," ","t","h","e"," ","w","e","a","t","h","e","r">>, <<"x","t","r","a","c","k"," ","m","y"," ","o","r","d","e","r","y">>,
    <<"p","l","e","a","s","e"," ","r","e","s","e","t"," ","m","y"," ","p","a","s","s","w","o","r","d"," ","b","e","c","a","u","s","e"," ","m","y"," ","d","e","v","i","c","e"," ","i","s"," ","b","r","o","k","e","n"," ","n","o","w">> }
    \cup AllExamples
    \cup {a \o <<" ">> \o b : a \in AllExamples, b \in AllExamples}

\* The queries the tools are called with.
Queries ==
  WrittenQueries
    \cup {JoinWords(w) : w \in UNION {[1..n -> Vocabulary] : n \in 1..MaxWords}}

\* The state in which a tool that only computes is called: these tools
\* read nothing but their argument, so one call from this state stands
\* for a call at any time.
ToolInit ==
  /\ embed_model = None
  /\ chroma_client = None
  /\ knowledge_collection = None
  /\ embed_loads = 0
  /\ client_opens = 0
  /\ collection_opens = 0
  /\ chroma_path_exists = FALSE
  /\ store_count = 0
  /\ index_tool_exists = FALSE
  /\ kb_dir_exists = FALSE
  /\ spc = "tools"
  /\ tool_calls = 0
  /\ reply = "none"
  /\ search_result = NoResult
  /\ answer = NoResult
  /\ user_query = <<>>

\* The tool validate_support_query.
ValidateSupportQuery ==
  /\ spc = "tools"
  /\ \E query \in Queries :
       /\ user_query' = query
       /\ answer' = validate_support_query(query)
  /\ reply' = "validate_support_query"
  /\ spc' = "answered"
  /\ tool_calls' = tool_calls + 1
  /\ UNCHANGED <<embed_model, chroma_client, knowledge_collection,
                 embed_loads, client_opens, collection_opens,
                 chroma_path_exists, store_count, index_tool_exists,
                 kb_dir_exists, search_result>>

\* The tool classify_canonical_query.
ClassifyCanonicalQuery ==
  /\ spc = "tools"
  /\ \E query \in Queries :
       /\ user_query' = query
       /\ answer' = classify_canonical_query(query)
  /\ reply' = "classify_canonical_query"
  /\ spc' = "answered"
  /\ tool_calls' = tool_calls + 1
  /\ UNCHANGED <<embed_model, chroma_client, knowledge_collection,
                 embed_loads, client_opens, collection_opens,
                 chroma_path_exists, store_count, index_tool_exists,
                 kb_dir_exists, search_result>>

(***************************************************************************)
(* Specifications                                                          *)
(***************************************************************************)

vars == <<avars, svars>>

\* The archiver alone: the server is not running.
ServerIdle ==
  /\ embed_model = None
  /\ chroma_client = None
  /\ knowledge_collection = None
  /\ embed_loads = 0
  /\ client_opens = 0
  /\ collection_opens = 0
  /\ chroma_path_exists = FALSE
  /\ store_count = 0
  /\ index_tool_exists = FALSE
  /\ kb_dir_exists = FALSE
  /\ spc = "idle"
  /\ tool_calls = 0
  /\ reply = "none"
  /\ search_result = NoResult
  /\ answer = NoResult
  /\ user_query = <<>>

\* The server alone: the archiver is not running.
ArchiverIdle ==
  /\ fs = <<>>
  /\ dirs = {}
  /\ dry_run = TRUE
  /\ verbose = FALSE
  /\ all_files = {}
  /\ used_files = {}
  /\ log_lines = <<>>
  /\ pc = "idle"
  /\ ref_idx = 1
  /\ iteration = 0
  /\ files_to_check = {}
  /\ new_refs_found = 0
  /\ source_file = None
  /\ unused_files = {}
  /\ queue = <<>>
  /\ archived_count = 0
  /\ failed_count = 0
  /\ calls = <<>>

Init == ArchiverInit /\ ServerIdle

Next ==
  \/ StartAnalysis /\ UNCHANGED svars
  \/ MarkSetupFiles /\ UNCHANGED svars
  \/ AnalyzePrimaryRef /\ UNCHANGED svars
  \/ BeginIteration /\ UNCHANGED svars
  \/ ScanFile /\ UNCHANGED svars
  \/ EndIteration /\ UNCHANGED svars
  \/ ComputeUnused /\ UNCHANGED svars
  \/ ArchiveBegin /\ UNCHANGED svars
  \/ ArchiveFile /\ UNCHANGED svars
  \/ ArchiveEnd /\ UNCHANGED svars
  \/ WriteLog /\ UNCHANGED svars

\* One run of the archiver.
Spec == Init /\ [][Next]_vars

\* The runs of the archiver, and the end of a run on the deep project.
CapSpec == (Init \/ (CapInit /\ ServerIdle)) /\ [][Next]_vars

SInit == ServerInit /\ ArchiverIdle

SNext ==
  \/ IndexKnowledgeBase /\ UNCHANGED avars
  \/ StartupStats /\ UNCHANGED avars
  \/ GetKnowledgeBaseStats /\ UNCHANGED avars
  \/ VectorSearchKnowledge /\ UNCHANGED avars
  \/ GetKnowledgeForQuery /\ UNCHANGED avars

\* One run of the server process.
ServerSpec == SInit /\ [][SNext]_vars


TInit == ToolInit /\ ArchiverIdle

TNext ==
  \/ ValidateSupportQuery /\ UNCHANGED avars
  \/ ClassifyCanonicalQuery /\ UNCHANGED avars

\* The tools that read no state, called with any of the queries.
ToolSpec == TInit /\ [][TNext]_vars
(***************************************************************************)
(* Properties of run_analysis                                              *)
(***************************************************************************)

\* The positions of run() up to the end of the propagation loop.
BeforeLoopEnd == {"start", "setup", "primary", "loop", "scan"}

\* The positions of run() after run_analysis has returned.
AfterAnalysis == {"archive", "archiving", "write_log", "done", "crashed"}

\* The project of the end-to-end scenario: README.md refers to
\* scripts/build.sh, scripts/build.sh to lib/helper.py, and old_notes.txt
\* is referred to by nothing.
ScenarioProject ==
  [p \in {README, build_sh, helper_py, old_notes} |->
     IF p = README THEN { <<"s","c","r","i","p","t","s","/","b","u","i","l","d",".","s","h">> }
     ELSE IF p = build_sh THEN { <<"l","i","b","/","h","e","l","p","e","r",".","p","y">> }
     ELSE {}]

\* C1: on the scenario project, run_analysis ends with README.md,
\* scripts/build.sh and lib/helper.py used and returns exactly
\* {old_notes.txt}.
C1_EndToEndScenario ==
  (pc = "archive" /\ fs = ScenarioProject) =>
     /\ {README, build_sh, helper_py} \subseteq used_files
     /\ unused_files = {old_notes}

\* What the code returns on the scenario project: lib/helper.py is unused
\* as well, since scripts/build.sh is never scanned.
C1_ScenarioAsRun ==
  (pc = "archive" /\ fs = ScenarioProject) =>
     /\ used_files = {README, build_sh}
     /\ unused_files = {helper_py, old_notes}

\* The files one more propagation pass over the used files would mark:
\* analyze_references_from_file on every used file with a scanned suffix.
ExtraPassFinds ==
  UNION { UNION { st.used \ used_files
                  : st \in analyze_references_from_file(
                             f, <<"transitive reference">>, used_files,
                             log_lines, all_files, fs) }
          : f \in {g \in used_files : IsScanned(g)} }

\* C2 as claimed: whenever run_analysis has returned, one more pass marks
\* no file.
C2_FixedPointAlways ==
  pc = "archive" => ExtraPassFinds = {}

\* C2 as amended: when the loop ended on a pass that marked no file (and
\* not on the cap), one more pass marks no file.
C2_FixedPointWhenConverged ==
  (pc = "archive" /\ new_refs_found = 0) => ExtraPassFinds = {}

\* The loop has ended on a pass without marks, after passes with marks.
C2_Witness ==
  /\ pc = "archive"
  /\ new_refs_found = 0
  /\ iteration >= 2
  /\ \E f \in used_files : ~is_setup_file(f) /\ Len(f) > 1

\* C3: every step of a run leaves the used-file set a superset of what it
\* was; no path is ever removed.
C3_UsedFilesOnlyGrow ==
  [][used_files \subseteq used_files']_vars

\* A propagation pass has marked files on top of the setup files and the
\* primary references.
C3_Witness ==
  /\ pc = "scan"
  /\ new_refs_found > 0
  /\ \E f \in used_files : is_setup_file(f)

\* A measure of the work the loop has left: the passes still allowed, each
\* weighed above the files one pass can hold, then the files left in the
\* pass at hand.
LoopMeasure ==
  (max_iterations - iteration) * (Cardinality(DOMAIN fs) + 2)
    + (IF pc = "scan" THEN 1 + Cardinality(files_to_check) ELSE 0)

\* C4: the loop never makes more than 50 passes; it is left only after a
\* pass that marked nothing or with the 50th pass done; a pass that marked
\* nothing is the last one; and the loop is always left: every step
\* inside it lowers LoopMeasure, which is never negative.
C4_LoopTerminates ==
  /\ [](iteration <= max_iterations)
  /\ [][(pc \in {"loop", "scan"} /\ pc' = "classify") =>
          (new_refs_found = 0 \/ iteration = max_iterations)]_vars
  /\ [][(pc = "scan" /\ files_to_check = {} /\ new_refs_found = 0) =>
          pc' = "classify"]_vars
  /\ [](pc \in {"loop", "scan"} => LoopMeasure >= 0)
  /\ [][(pc \in {"loop", "scan"} /\ pc' \in {"loop", "scan"}) =>
          LoopMeasure' < LoopMeasure]_vars

\* The cap has ended the loop after a 50th pass that still marked a file.
C4_Witness ==
  pc = "classify" /\ iteration = max_iterations /\ new_refs_found > 0

\* C5: no file is classified unused before the loop has ended; the step
\* after the loop sets the unused set to all_files minus used_files; and
\* from then on the set is what it was set to.
C5_UnusedComputedOnceAfterLoop ==
  /\ [](pc \in BeforeLoopEnd \cup {"classify"} => unused_files = {})
  /\ [][pc = "classify" => unused_files' = all_files \ used_files]_vars
  /\ [][(pc \in AfterAnalysis) =>
          (unused_files' = unused_files /\
           unused_files' = (all_files' \ used_files'))]_vars

\* run_analysis has returned a set that leaves out files the propagation
\* marked.
C5_Witness ==
  /\ pc = "archiving"
  /\ unused_files # {}
  /\ iteration >= 2
  /\ used_files \cap all_files # {}

(***************************************************************************)
(* Properties of archive_files                                             *)
(***************************************************************************)

\* How many entries of the audit log carry a text about a path.
CountLog(text, path) ==
  Cardinality({i \in 1..Len(log_lines) :
                 log_lines[i].text = text /\ log_lines[i].about = path})

\* How many entries of the audit log are at a level.
CountLevel(level) ==
  Cardinality({i \in 1..Len(log_lines) : log_lines[i].level = level})

\* C6: in dry-run mode archive_files creates no directory and moves no
\* file; each turn of its loop appends the '[DRY-RUN] Would archive' entry
\* of its file and nothing else; when it returns every unused file has that
\* entry once and no move was asked of git or shutil.
C6_DryRunMutatesNothing ==
  /\ [][(dry_run /\ pc \in {"archive", "archiving"}) =>
          (fs' = fs /\ dirs' = dirs /\ calls' = calls)]_vars
  /\ [][(dry_run /\ pc = "archiving" /\ queue # <<>>) =>
          log_lines' = Append(log_lines,
                              LogEntry("INFO", "[DRY-RUN] Would archive",
                                       Head(queue)))]_vars
  /\ []((dry_run /\ pc = "write_log") =>
          \A f \in unused_files : CountLog("[DRY-RUN] Would archive", f) = 1)

\* A dry run has gone through archive_files with several unused files, in
\* a project that has no archive directory.
C6_Witness ==
  /\ dry_run
  /\ pc = "write_log"
  /\ Cardinality(unused_files) >= 2
  /\ archive_dir \notin dirs

\* C7: in live mode a failure on one file (making its destination
\* directory, git mv, the plain move) is logged at ERROR level and counted,
\* and archive_files goes on: it never ends with files unprocessed, and
\* when it ends every unused file was counted once and every failure has
\* its ERROR entry.
C7_FailureDoesNotAbort ==
  (~dry_run /\ pc \in {"crashed", "write_log", "done"}) =>
     /\ queue = <<>>
     /\ archived_count + failed_count = Cardinality(unused_files)
     /\ CountLevel("ERROR") = failed_count

\* The calls of one kind about one file.
CallsOf(op, path) ==
  {i \in 1..Len(calls) : calls[i].op = op /\ calls[i].src = path}

\* Whether a file of the unused set now lies in the archive (at its
\* destination or inside it) and no longer at its own path.
Relocated(path) ==
  /\ path \notin DOMAIN fs
  /\ \/ (archive_dir \o path) \in DOMAIN fs
     \/ (archive_dir \o path \o <<Name(path)>>) \in DOMAIN fs

\* C8: in live mode shutil.move is asked for a file only right after git
\* mv answered non-zero for that file, and git mv is asked at most once
\* per file; 'Archived' is logged for exactly the files git moved and
\* 'Moved (untracked)' for exactly the files the fallback moved; a
\* relocated file has exactly one of the two entries, any other file none.
C8_GitFirstThenFallback ==
  /\ \A i \in 1..Len(calls) :
        calls[i].op = "shutil.move" =>
          /\ i > 1
          /\ calls[i - 1] =
               Call("git mv", calls[i].src, calls[i].dst, "nonzero")
  /\ \A f \in unused_files :
        /\ Cardinality(CallsOf("git mv", f)) <= 1
        /\ CountLog("Archived", f) =
             Cardinality({i \in CallsOf("git mv", f) : calls[i].result = "0"})
        /\ CountLog("Moved (untracked)", f) =
             Cardinality({i \in CallsOf("shutil.move", f) :
                            calls[i].result = "moved"})
        /\ CountLog("Archived", f) + CountLog("Moved (untracked)", f)
             = (IF Relocated(f) THEN 1 ELSE 0)

\* One file went with git mv and another with the fallback.
C8_Witness ==
  /\ ~dry_run
  /\ \E f \in unused_files : CountLog("Archived", f) = 1
  /\ \E g \in unused_files : CountLog("Moved (untracked)", g) = 1

\* The files an analysis of source may mark when fuzzy matching is used
\* only for the references that resolve to no file.
FallbackOnlyMarks(source) ==
  UNION { LET resolved == resolve_reference(ref, source, DOMAIN fs)
          IN  IF resolved # None THEN {resolved}
              ELSE find_file_by_name(ref, all_files)
          : ref \in (IF Readable(source, fs)
                      THEN extract_references(fs[source]) ELSE {}) }

\* C9: fuzzy matching is a fallback only: a step that analyses a file
\* marks, besides a primary reference file itself, only files a reference
\* resolves to exactly and fuzzy matches of references that resolve to no
\* file.
C9_FuzzyOnlyWhenResolutionFails ==
  [][(pc \in {"primary", "scan"} /\ used_files' # used_files) =>
       (used_files' \ used_files) \subseteq
          ({source_file'} \cup FallbackOnlyMarks(source_file'))]_vars

(***************************************************************************)
(* Properties of the server's caches                                       *)
(***************************************************************************)

\* A cache that holds a handle keeps it over the step.
Kept(cache, cache_after) == cache # None => cache_after = cache

\* C10 as claimed: each cache is initialised at most once and no step of
\* the process (startup indexing, tool calls) resets or replaces a handle.
C10_NoInvalidation ==
  [][/\ Kept(embed_model, embed_model')
     /\ Kept(chroma_client, chroma_client')
     /\ Kept(knowledge_collection, knowledge_collection')
     /\ embed_loads' <= 1
     /\ client_opens' <= 1
     /\ collection_opens' <= 1]_vars

\* C10 as amended: the embedding model is initialised at most once and
\* never reset; the vector-store client and collection are kept by every
\* step but _index_knowledge_base, which resets them, so that they are
\* initialised at most twice.
C10_NoInvalidationAfterStartup ==
  [][/\ Kept(embed_model, embed_model')
     /\ embed_loads' <= 1
     /\ spc # "startup" =>
          (Kept(chroma_client, chroma_client') /\
           Kept(knowledge_collection, knowledge_collection'))
     /\ client_opens' <= 2
     /\ collection_opens' <= 2]_vars

\* Tool calls have been served with handles that startup indexing had
\* reset and built again, and with the embedding model loaded.
C10_Witness ==
  /\ spc = "serving"
  /\ tool_calls >= 2
  /\ client_opens = 2
  /\ chroma_client = Handle(2)
  /\ embed_model = Handle(1)


(***************************************************************************)
(* C11: combined retrieval with zero matches                               *)
(***************************************************************************)

\* Whether the dict of a search holds an empty list of matches.
ZeroMatches(result) ==
  "matches" \in DOMAIN result /\ result.matches = <<>>

\* The fixed answer of get_knowledge_for_query for no matches.
Sentinel ==
  [knowledge |-> <<"N","o"," ","r","e","l","e","v","a","n","t"," ","d","o","c","u","m","e","n","t","a","t","i","o","n"," ","f","o","u","n","d",".">>, sources |-> <<>>]

\* C11 (as claimed): whenever the search under get_knowledge_for_query
\* yields zero matches, for every category and query and also when the
\* index is empty, the answer is exactly the sentinel with no sources.
C11_SentinelOnZeroMatches ==
  (search_result # NoResult /\ ZeroMatches(search_result))
    => answer = Sentinel

\* C11 (amended): get_knowledge_for_query answers the sentinel whenever the
\* search yields zero matches and no error field; a search dict with an
\* error field (the empty index, an exception) is returned unchanged.
C11_SentinelWhenNoErrorField ==
  search_result # NoResult =>
    /\ (ZeroMatches(search_result) /\ "error" \notin DOMAIN search_result)
         => answer = Sentinel
    /\ "error" \in DOMAIN search_result => answer = search_result
    /\ (store_count = 0 /\ reply # "error")
         => (ZeroMatches(answer) /\ "error" \in DOMAIN answer)

\* A filtered search of a non-empty index found nothing and the sentinel
\* was returned.
C11_Witness ==
  /\ search_result # NoResult
  /\ store_count > 0
  /\ "error" \notin DOMAIN search_result
  /\ ZeroMatches(search_result)
  /\ search_result.category_filter = "returns_refunds"
  /\ answer = Sentinel

(***************************************************************************)
(* C12: the validator's decision rule                                      *)
(***************************************************************************)

\* The terms the claim lists.
DisallowedTerms == { <<"h","a","c","k">>, <<"e","x","p","l","o","i","t">>, <<"i","l","l","e","g","a","l">>, <<"c","r","a","c","k">> }

\* The decision the claim gives for a query: the reason of the rejection,
\* or "valid".
ClaimedDecision(query) ==
  IF Len(Strip(query, Whitespace)) < 3 THEN "Query too short"
  ELSE IF /\ \E t \in DisallowedTerms : Contains(Lower(query), t)
          /\ ~Contains(Lower(query), <<"h","a","c","k","e","d">>)
  THEN "Query contains inappropriate content"
  ELSE "valid"

\* C12: for every query the validator rejects a trimmed length under 3 as
\* 'Query too short', else rejects a query holding hack, exploit, illegal
\* or crack but not 'hacked' as 'Query contains inappropriate content',
\* else accepts; 'my account was hacked' is accepted and 'how do I hack
\* this device' is rejected.
C12_ValidatorDecisionRule ==
  reply = "validate_support_query" =>
    /\ answer.valid = (ClaimedDecision(user_query) = "valid")
    /\ ~answer.valid => answer.reason = ClaimedDecision(user_query)
    /\ user_query = <<"m","y"," ","a","c","c","o","u","n","t"," ","w","a","s"," ","h","a","c","k","e","d">> => answer.valid
    /\ user_query = <<"h","o","w"," ","d","o"," ","I"," ","h","a","c","k"," ","t","h","i","s"," ","d","e","v","i","c","e">> =>
         (~answer.valid
            /\ answer.reason = "Query contains inappropriate content")

\* The validator has accepted a query that holds "hack" inside "hacked".
C12_Witness ==
  /\ reply = "validate_support_query"
  /\ user_query = <<"m","y"," ","a","c","c","o","u","n","t"," ","w","a","s"," ","h","a","c","k","e","d">>
  /\ answer.valid

(***************************************************************************)
(* C13, C14, C15: the classifier                                           *)
(***************************************************************************)

\* The keywords of a category.
KeywordsOf(name) ==
  UNION {IF keyword_maps[k][1] = name THEN Range(keyword_maps[k][2]) ELSE {} :
           k \in 1..Len(keyword_maps)}

\* (a) the fraction of a category's keywords that are substrings of the
\* lower-cased query.
KeywordFraction(name, query) ==
  IF KeywordsOf(name) = {} THEN <<0, 1>>
  ELSE Rat(Cardinality({w \in KeywordsOf(name) : Contains(Lower(query), w)}),
           Cardinality(KeywordsOf(name)))

\* The words of a text, lower-cased.
WordSet(text) == Range(Words(Lower(text)))

\* (b) for one example: |intersection| / max(|example words|, |query words|)
WordOverlap(example, query) ==
  LET shared == Cardinality(WordSet(example) \cap WordSet(query))
      larger == IF Cardinality(WordSet(example)) > Cardinality(WordSet(query))
                THEN Cardinality(WordSet(example))
                ELSE Cardinality(WordSet(query))
  IN  IF shared = 0 THEN <<0, 1>> ELSE Rat(shared, larger)

\* The largest of a non-empty finite set of fractions.
Largest(S) == CHOOSE x \in S : \A y \in S : ~RatLess(x, y)

\* (b) the best overlap over the examples of a category.
BestOverlap(name, query) ==
  Largest({<<0, 1>>} \cup
          {WordOverlap(e, query) : e \in Range(example_queries(name))})

\* The combined score of a category: the larger of (a) and (b).
Combined(name, query) ==
  Largest({KeywordFraction(name, query), BestOverlap(name, query)})

\* Every category scores zero for the query.
ScoresZero(query) ==
  \A k \in 1..Len(CategoryNames) :
    Combined(CategoryNames[k], query) = <<0, 1>>

Classified == reply = "classify_canonical_query"

\* C13: for every query that scores zero for every category the classifier
\* answers general_support with confidence exactly 0.3, no alternatives
\* and the 'no match' reason; it never answers a confidence of 0.
C13_ZeroScoreDefault ==
  Classified =>
    /\ ScoresZero(user_query) =>
         /\ answer.suggested_query = "general_support"
         /\ answer.confidence = <<3, 10>>
         /\ answer.alternatives = <<>>
         /\ answer.reason =
              <<"No specific category matched, routing to general support">>
    /\ RatLess(<<0, 1>>, answer.confidence)

\* A query without keyword or shared word got the default answer.
C13_Witness ==
  /\ Classified
  /\ user_query = <<"w","e","a","t","h","e","r">>
  /\ ScoresZero(user_query)
  /\ answer = DefaultAnswer

\* Whether the query holds the whole text of an example of the category.
HoldsExampleOf(name, query) ==
  \E e \in Range(example_queries(name)) : Contains(Lower(query), Lower(e))

\* C14 (as claimed): for every query that holds the full text of one of a
\* category's examples, the classifier answers that category, with a
\* confidence at least its keyword-only score and its word-overlap score.
C14_ExampleTextWins ==
  Classified =>
    \A k \in 1..Len(CategoryNames) :
      HoldsExampleOf(CategoryNames[k], user_query) =>
        /\ answer.suggested_query = CategoryNames[k]
        /\ ~RatLess(answer.confidence,
                    KeywordFraction(CategoryNames[k], user_query))
        /\ ~RatLess(answer.confidence,
                    BestOverlap(CategoryNames[k], user_query))

\* No other category scores higher, and no earlier one as high.
FirstBest(k, query) ==
  /\ RatLess(<<0, 1>>, Combined(CategoryNames[k], query))
  /\ \A j \in 1..Len(CategoryNames) :
       ~RatLess(Combined(CategoryNames[k], query),
                Combined(CategoryNames[j], query))
  /\ \A j \in 1..(k - 1) :
       RatLess(Combined(CategoryNames[j], query),
               Combined(CategoryNames[k], query))

\* C14 (amended): for every query that holds the full text of one of a
\* category's examples, the confidence answered is at least that
\* category's keyword-only score and its word-overlap score, and the
\* category is answered exactly when its combined score is positive, no
\* other category scores higher and no earlier category scores as high.
C14_ExampleTextWinsWhenBest ==
  Classified =>
    \A k \in 1..Len(CategoryNames) :
      HoldsExampleOf(CategoryNames[k], user_query) =>
        /\ ~RatLess(answer.confidence,
                    KeywordFraction(CategoryNames[k], user_query))
        /\ ~RatLess(answer.confidence,
                    BestOverlap(CategoryNames[k], user_query))
        /\ (answer # DefaultAnswer /\ answer.suggested_query = CategoryNames[k])
             <=> FirstBest(k, user_query)

\* A query holding an example of shipping_inquiry among other words was
\* answered shipping_inquiry, its keyword score above its overlap.
C14_Witness ==
  /\ Classified
  /\ user_query = <<"x","t","r","a","c","k"," ","m","y"," ","o","r","d","e","r","y">>
  /\ HoldsExampleOf("shipping_inquiry", user_query)
  /\ answer.suggested_query = "shipping_inquiry"
  /\ answer.confidence = <<2, 3>>
  /\ RatLess(BestOverlap("shipping_inquiry", user_query), answer.confidence)

\* C15: when a category has a positive score the classifier answers a
\* category whose combined score (the larger of keyword fraction and best
\* example overlap) is the largest of all, the first such category in the
\* order of CANONICAL_QUERIES, with that score (at most 1) as confidence.
C15_MaxScoreFirstWins ==
  (Classified /\ ~ScoresZero(user_query)) =>
    \E k \in 1..Len(CategoryNames) :
      /\ answer.suggested_query = CANONICAL_QUERIES[k].name
      /\ FirstBest(k, user_query)
      /\ answer.confidence = Combined(CategoryNames[k], user_query)

\* Three categories tied at 1/3 and the first of the registry was answered.
C15_Witness ==
  /\ Classified
  /\ user_query = <<"m","y">>
  /\ Combined("account_security", user_query) = <<1, 3>>
  /\ Combined("shipping_inquiry", user_query) = <<1, 3>>
  /\ Combined("returns_refunds", user_query) = <<1, 3>>
  /\ answer.suggested_query = "account_security"
  /\ answer.confidence = <<1, 3>>

(***************************************************************************)
(* Properties of archive_files: one outcome per file                       *)
(***************************************************************************)

\* archive_files has returned (an exception that leaves it is no return).
ArchiveReturned == pc \in {"write_log", "done"}

\* The files the for loop has visited, in the order of its turns: a live
\* turn asks git mv for its file, a dry-run turn logs it.
Visited ==
  IF dry_run
  THEN LET turns == SelectSeq(log_lines,
                      LAMBDA e : e.text = "[DRY-RUN] Would archive")
       IN  [i \in 1..Len(turns) |-> turns[i].about]
  ELSE LET turns == SelectSeq(calls, LAMBDA c : c.op = "git mv")
       IN  [i \in 1..Len(turns) |-> turns[i].src]

\* Whether the file was counted as archived: each of the two entries is
\* logged together with archived_count += 1.
CountedArchived(path) ==
  CountLog("Archived", path) + CountLog("Moved (untracked)", path) >= 1

\* Whether the file was counted as failed: the ERROR entry is logged
\* together with failed_count += 1.
CountedFailed(path) == CountLog("Failed to archive", path) >= 1

\* When archive_files returns the two counters add up to the size of the
\* unused set and every file was visited once, in sorted order.
EveryFileCountedOnce ==
  ArchiveReturned =>
    /\ archived_count + failed_count = Cardinality(unused_files)
    /\ Visited = Sorted(unused_files)

\* A file counted as failed was not reported as archived.
FailedNotReportedArchived ==
  ArchiveReturned =>
    \A f \in unused_files : CountedFailed(f) => ~CountedArchived(f)

\* In live mode a file counted as archived has left its path and lies at
\* archive/<same relative path>.
ArchivedLiesAtDestination ==
  (ArchiveReturned /\ ~dry_run) =>
    \A f \in unused_files :
      CountedArchived(f) =>
        /\ f \notin DOMAIN fs
        /\ (archive_dir \o f) \in DOMAIN fs

\* C16: every unused file gets exactly one outcome: whenever archive_files
\* returns, archived_count + failed_count is the size of the unused set,
\* each file was visited once in sorted order, in live mode a file counted
\* as archived is no longer at its path but at archive/<same relative
\* path>, and a file counted as failed was not reported as archived.
C16_OneOutcomePerFile ==
  /\ EveryFileCountedOnce
  /\ FailedNotReportedArchived
  /\ ArchivedLiesAtDestination

(***************************************************************************)
(* Properties of the analysis: the protected files                         *)
(***************************************************************************)

\* The paths of the primary reference files.
PrimaryRefPaths ==
  {JoinResolve(<<>>, PRIMARY_REF_FILES[i]) : i \in 1..Len(PRIMARY_REF_FILES)}

\* Whether a file lies under an excluded directory: one of ALWAYS_EXCLUDE
\* or a directory whose name starts with a dot.
UnderExcludedDirectory(path) ==
  \E i \in 1..(Len(path) - 1) :
       path[i] \in ALWAYS_EXCLUDE \/ path[i][1] = "."

\* The files archiving must leave alone.
Protected(path) ==
  \/ is_setup_file(path)
  \/ path \in PrimaryRefPaths
  \/ UnderExcludedDirectory(path)

\* C17: protected files are never archived: no setup file, no existing
\* primary reference file and no file under an excluded directory is ever
\* put in the unused set, archive_files goes through files of the unused
\* set only and only these are handed to git mv or shutil.move, and a
\* file that a step of a run takes from its place or changes is not a
\* protected one.
C17_ProtectedNeverArchived ==
  /\ unused_files = {}
  /\ [][(unused_files' # unused_files) =>
          \A p \in unused_files' : ~Protected(p)]_vars
  /\ [](/\ Range(queue) \subseteq unused_files
        /\ \A i \in 1..Len(calls) : calls[i].src \in unused_files)
  /\ [][\A p \in DOMAIN fs :
          (p \notin DOMAIN fs' \/ fs'[p] # fs[p]) => ~Protected(p)]_vars

\* A live run has ended in a project that holds a setup file, a primary
\* reference file and a file under an excluded directory, all still in
\* place, after another file was moved to the archive.
C17_Witness ==
  /\ ~dry_run
  /\ pc = "done"
  /\ \E p \in DOMAIN fs : is_setup_file(p) /\ ~UnderExcludedDirectory(p)
  /\ \E p \in DOMAIN fs : p \in PrimaryRefPaths /\ ~is_setup_file(p)
  /\ \E p \in DOMAIN fs : p \in UNION Leftovers
  /\ \E f \in unused_files : Relocated(f) /\ CountLog("Archived", f) = 1
=============================================================================
